---- MODULE Spec2Model ----
(***************************************************************************)
(* The DecisionLab wizard of src/components/DecisionLab.tsx as a state     *)
(* machine: the DecisionRecord held by useReducer, the current stage       *)
(* index, the local state of the mounted stage component, and the          *)
(* asynchronous continuations (AI calls, the deferred Monte Carlo run)     *)
(* that are in flight together with the values their closures captured.    *)
(*                                                                         *)
(* Conventions.  JavaScript null/undefined is NULL for an object, NOLIST   *)
(* for an array and "" for a string.  A name or a framing text is "" when  *)
(* it trims to the empty string and a non-empty string otherwise; the      *)
(* texts parseNum and classifyRisk read are sequences of one-character     *)
(* strings.  A criterion weight is kept in hundredths, so 0.35 is 35.      *)
(***************************************************************************)
EXTENDS Integers, Sequences, FiniteSets, TLC

VARIABLES
  decision,         \* useReducer(decisionReducer, INITIAL_STATE)
  currentStageIdx,  \* useState(0) of DecisionLab
  idSeq,            \* the module-level counter _idSeq of genId
  fr,               \* local state of the mounted FramingStage
  al,               \* local state of the mounted AlternativesStage
  cr,               \* local state of the mounted CriteriaStage
  sc,               \* local state of the mounted ScoringStage
  un,               \* local state of the mounted UncertaintyStage
  pm,               \* local state of the mounted PreMortemStage
  sy,               \* local state of the mounted SynthesisStage
  brainstorms,      \* pending geminiService.brainstormAlternatives calls
  timers,           \* pending setTimeout callbacks of handleSubmitValues
  call              \* a direct call of one of the helper functions

vars == <<decision, currentStageIdx, idSeq, fr, al, cr, sc, un, pm, sy,
          brainstorms, timers, call>>

locals == <<fr, al, cr, sc, un, pm, sy>>

----------------------------------------------------------------------------
(* Bounds of the model *)

\* genId is not called once _idSeq has reached this value
MaxIdSeq == 10

\* at most this many brainstormAlternatives calls are in flight
MaxBrainstorms == 2

\* at most this many deferred Monte Carlo runs are in flight
MaxTimers == 2

\* a ScoringStage has at most this many generateScoringInsight calls in flight
MaxInsightCalls == 2

\* a SynthesisStage has at most this many refineMemo calls in flight
MaxRefineCalls == 2

\* completedRisks is not extended beyond this length
MaxRisksLen == 3

\* at most this many weights differ from the weights the stage proposes
MaxWeightEdits == 2

\* at most this many cells of the score table differ from the default score
MaxScoreEdits == 1

\* the number of samples monteCarlo draws for the wizard (n = 10000 in the code)
MCTrials == 1

\* Math.random() returns one of the fractions 0/UDen .. (UDen-1)/UDen
UDen == 2

----------------------------------------------------------------------------
(* Constants of the program *)

\* null of a field that holds an object
NULL == [null |-> TRUE]

\* null of a field that holds an array; the code stores no empty array in
\* such a field (aiSuggestions, aiRisks, ranked, manualWeights)
NOLIST == <<>>

\* null or undefined passed for an array argument of calculateRankings or
\* detectScoringPatterns: a value that has no length and cannot be iterated
NoArray == <<NULL>>

STAGES ==
  <<"framing", "alternatives", "criteria", "scoring",
    "uncertainty", "premortem", "synthesis">>

\* STAGES[i].id for the 0-based index the code uses
StageId(i) == STAGES[i + 1]

LastStageIdx == Len(STAGES) - 1

THRESHOLD_OPTIONS == {25000, 75000, 250000, 750000, 1500000}

REVERSIBILITY_OPTIONS ==
  { [value |-> "easy", label |-> "High"],
    [value |-> "moderate", label |-> "Moderate"],
    [value |-> "hard", label |-> "Low"] }

DEFAULT_CRITERIA_NAMES ==
  <<"Expected ROI / Value", "Time to Outcome", "Strategic Fit", "Risk Level">>

PreMortemCutoff == 100000

MaxAlternatives == 5

MinAlternatives == 2

MaxCriteria == 5

MinCriteria == 2

ReviewAtRisks == 5

DefaultScore == 5

DefaultWeightPct == 5

INITIAL_STATE ==
  [ statement    |-> "",
    objectives   |-> "",
    alternatives |-> <<>>,
    criteria     |-> <<>>,
    scores       |-> <<>>,
    topChoice    |-> NULL,
    mcResult     |-> NULL,
    risks        |-> <<>>,
    meta         |-> [threshold |-> 0, reversibility |-> "",
                      reversibilityLabel |-> ""] ]

----------------------------------------------------------------------------
(* Inputs the user and the AI service can supply *)

TextInputs == {"", "text"}

ThresholdInputs == {75000, 250000}

ReversibilityInputs == { o \in REVERSIBILITY_OPTIONS : o.value = "easy" }

NameInputs == {"", "name"}

\* what brainstormAlternatives can resolve with
BrainstormResults ==
  { NULL, [suggestions |-> <<>>], [suggestions |-> <<"name">>] }

WeightInputs == {0, 12, 40}

ScoreInputs == {9}

\* the texts typed into the best, most likely and worst case fields
BestInputs == { <<"x">>, <<"$", "2", "K">> }

LikelyInputs == { <<"5", "0", "0">>, <<"9", "k">> }

WorstInputs == { <<"-", "1">>, <<"2", ",", "0", "0", "0">> }

\* the most likely case typed in when the estimates are submitted again
LaterLikelyInputs == { <<"9", "0", "0">> }

\* what generateScoringInsight can resolve with, after trim()
InsightResults == {"", "insight"}

\* what refineMemo can resolve with, after trim()
RefineResults == {"", "memo"}

\* what brainstormRisks can resolve with (NOLIST for null): a suggestion
\* with every field, and one whose description and likelihood are missing
AiRiskResults ==
  { NOLIST,
    << [ description |-> <<"d", "e", "m", "a", "n", "d">>,
         suggestedLikelihood |-> "low", suggestedImpact |-> "high" ] >>,
    << [ description |-> <<>>,
         suggestedLikelihood |-> "", suggestedImpact |-> "high" ] >> }

DescriptionInputs == { <<>>, <<"T", "e", "a", "m">> }

LevelInputs == {"high"}

\* a direct call of calculateRankings is given at most this many alternatives
MaxRankAlternatives == 3

\* a direct call of calculateRankings is given at most this many criteria
MaxRankCriteria == 2

\* a direct call of monteCarlo is given at most this many trials
MaxSimulateTrials == 3

\* what Math.random() returns during one monteCarlo run
Draws == [1..MCTrials -> 0..(UDen - 1)]

----------------------------------------------------------------------------
(* Helpers *)

Min(a, b) == IF a < b THEN a ELSE b

Max(a, b) == IF a > b THEN a ELSE b

Range(s) == { s[i] : i \in DOMAIN s }

RECURSIVE SumSeq(_)
SumSeq(s) == IF s = <<>> THEN 0 ELSE Head(s) + SumSeq(Tail(s))

\* a missing score read as 0
ScoreAtOrZero(scores, altId, critId) ==
  IF <<altId, critId>> \in DOMAIN scores THEN scores[<<altId, critId>>]
  ELSE 0

\* scores?.[altId]?.[critId] ?? 5
ScoreAt(scores, altId, critId) ==
  IF <<altId, critId>> \in DOMAIN scores THEN scores[<<altId, critId>>]
  ELSE DefaultScore

\* const shouldShowPreMortem = decision.meta.threshold > 100000
shouldShowPreMortem(d) == d.meta.threshold > PreMortemCutoff

\* the index goNext's updater returns for index i, with the value of
\* shouldShowPreMortem its closure captured
GoNextIdx(i, showPM) ==
  LET next == Min(i + 1, LastStageIdx)
  IN IF StageId(next) = "premortem" /\ ~showPM
     THEN Min(next + 1, LastStageIdx) ELSE next

\* the index goBack's updater returns
GoBackIdx(i, showPM) ==
  LET prev == Max(i - 1, 0)
  IN IF StageId(prev) = "premortem" /\ ~showPM
     THEN Max(prev - 1, 0) ELSE prev

----------------------------------------------------------------------------
(* calculateRankings *)

\* the weights taken to sum to 1, that is to 100 hundredths
unitWeight(criteria) == IF criteria = <<>> THEN 0 ELSE 100

\* criteria.reduce((s, c) => s + (c.weight || 0), 0), in hundredths
totalWeight(criteria) == SumSeq([i \in DOMAIN criteria |-> criteria[i].weight])

\* the scores added up without their weights
unweightedSum(alt, criteria, scores) ==
  SumSeq([i \in DOMAIN criteria |-> ScoreAt(scores, alt.id, criteria[i].id)])

\* criteria.reduce((s, cr) => s + (cr.weight || 0) * (scores?.[alt.id]?.[cr.id] ?? 5), 0)
weightedSum(alt, criteria, scores) ==
  SumSeq([i \in DOMAIN criteria |->
            criteria[i].weight * ScoreAt(scores, alt.id, criteria[i].id)])

\* x placed before the elements of equal score
RECURSIVE InsertDescBeforeEqual(_, _)
InsertDescBeforeEqual(sorted, x) ==
  IF sorted = <<>> THEN <<x>>
  ELSE IF Head(sorted).score.num > x.score.num
       THEN <<Head(sorted)>> \o InsertDescBeforeEqual(Tail(sorted), x)
       ELSE <<x>> \o sorted

\* x placed behind every element whose score is not smaller: the position a
\* stable descending sort gives an element that arrives after those of sorted
RECURSIVE InsertDesc(_, _)
InsertDesc(sorted, x) ==
  IF sorted = <<>> THEN <<x>>
  ELSE IF Head(sorted).score.num >= x.score.num
       THEN <<Head(sorted)>> \o InsertDesc(Tail(sorted), x)
       ELSE <<x>> \o sorted

\* .sort((a, b) => b.score - a.score) on entries that share score.den
RECURSIVE SortDesc(_)
SortDesc(s) ==
  IF s = <<>> THEN <<>>
  ELSE InsertDesc(SortDesc(SubSeq(s, 1, Len(s) - 1)), s[Len(s)])

\* calculateRankings without its check of totalW
calculateRankingsUnguarded(alternatives, criteria, scores) ==
  IF alternatives \in {NoArray, <<>>} \/ criteria \in {NoArray, <<>>} THEN <<>>
  ELSE SortDesc([ i \in DOMAIN alternatives |->
         [ id |-> alternatives[i].id,
           name |-> alternatives[i].name,
           score |-> [ num |-> weightedSum(alternatives[i], criteria, scores),
                       den |-> totalWeight(criteria) ] ] ])

\* a score is the fraction num / den, den being totalW in hundredths;
\* !alternatives?.length and !criteria?.length hold for null as for []
calculateRankings(alternatives, criteria, scores) ==
  IF alternatives \in {NoArray, <<>>} \/ criteria \in {NoArray, <<>>} THEN <<>>
  ELSE IF totalWeight(criteria) = 0 THEN <<>>
  ELSE SortDesc([ i \in DOMAIN alternatives |->
         [ id |-> alternatives[i].id,
           name |-> alternatives[i].name,
           score |-> [ num |-> weightedSum(alternatives[i], criteria, scores),
                       den |-> totalWeight(criteria) ] ] ])

----------------------------------------------------------------------------
(* parseNum, on a text given as a sequence of characters *)

Digits == <<"0", "1", "2", "3", "4", "5", "6", "7", "8", "9">>

IsDigit(c) == c \in Range(Digits)

DigitValue(c) == (CHOOSE i \in DOMAIN Digits : Digits[i] = c) - 1

UpperCase == <<"A","B","C","D","E","F","G","H","I","J","K","L","M",
               "N","O","P","Q","R","S","T","U","V","W","X","Y","Z">>

LowerCase == <<"a","b","c","d","e","f","g","h","i","j","k","l","m",
               "n","o","p","q","r","s","t","u","v","w","x","y","z">>

toLowerCase(s) ==
  [ i \in DOMAIN s |->
      IF s[i] \in Range(UpperCase)
      THEN LowerCase[CHOOSE j \in DOMAIN UpperCase : UpperCase[j] = s[i]]
      ELSE s[i] ]

\* s.trim() is the empty string
IsBlank(s) == \A i \in DOMAIN s : s[i] = " "

\* the value of the longest prefix of digits of s, read after the digits acc
RECURSIVE DigitsPrefix(_, _)
DigitsPrefix(s, acc) ==
  IF s = <<>> \/ ~IsDigit(Head(s)) THEN acc
  ELSE DigitsPrefix(Tail(s), 10 * acc + DigitValue(Head(s)))

NaN == [nan |-> TRUE, val |-> 0]

Num(v) == [nan |-> FALSE, val |-> v]

\* parseFloat of a text with an optional sign and an integer part (the
\* texts of the model carry no fraction and no exponent)
parseFloat(s) ==
  LET signed == s # <<>> /\ Head(s) \in {"-", "+"}
      body == IF signed THEN Tail(s) ELSE s
  IN IF body = <<>> \/ ~IsDigit(Head(body)) THEN NaN
     ELSE IF signed /\ Head(s) = "-" THEN Num(0 - DigitsPrefix(body, 0))
          ELSE Num(DigitsPrefix(body, 0))

parseNum(s) ==
  IF s = <<>> THEN NaN
  ELSE LET cleaned == toLowerCase(SelectSeq(s, LAMBDA c : c \notin {"$", ",", " "}))
           last == IF cleaned = <<>> THEN "" ELSE cleaned[Len(cleaned)]
           multiplier == CASE last = "m" -> 1000000
                           [] last = "k" -> 1000
                           [] last = "b" -> 1000000000
                           [] OTHER -> 1
           numStr == IF last \in {"m", "k", "b"}
                     THEN SubSeq(cleaned, 1, Len(cleaned) - 1) ELSE cleaned
           val == parseFloat(numStr)
       IN IF val.nan THEN NaN ELSE Num(val.val * multiplier)

----------------------------------------------------------------------------
(* monteCarlo.  A uniform draw u is the fraction k / UDen with k in          *)
(* 0..UDen-1; us is the sequence of the k's Math.random() returns.  Numbers *)
(* are integers: Math.sqrt and the division of the mean round down.         *)

\* the largest r in lo..hi with r * r <= x
RECURSIVE ISqrtIn(_, _, _)
ISqrtIn(x, lo, hi) ==
  IF lo >= hi THEN lo
  ELSE LET mid == (lo + hi + 1) \div 2
       IN IF mid * mid <= x THEN ISqrtIn(x, mid, hi) ELSE ISqrtIn(x, lo, mid - 1)

\* Math.sqrt rounded down, for x below 2^31
ISqrt(x) == ISqrtIn(x, 0, Min(x, 46340))

RECURSIVE InsertAsc(_, _)
InsertAsc(sorted, x) ==
  IF sorted = <<>> THEN <<x>>
  ELSE IF Head(sorted) <= x THEN <<Head(sorted)>> \o InsertAsc(Tail(sorted), x)
       ELSE <<x>> \o sorted

\* res.sort((a, b) => a - b)
\* the samples left in the order they were drawn
Unsorted(s) == s

\* res.sort((a, b) => a - b)
RECURSIVE SortAsc(_)
SortAsc(s) ==
  IF s = <<>> THEN <<>>
  ELSE InsertAsc(SortAsc(SubSeq(s, 1, Len(s) - 1)), s[Len(s)])

triangularSample(min, mode, max, k) ==
  IF k * (max - min) < UDen * (mode - min)
  THEN min + ISqrt(Max(0, (k * (max - min) * (mode - min)) \div UDen))
  ELSE max - ISqrt(Max(0, ((UDen - k) * (max - min) * (max - mode)) \div UDen))

\* monteCarlo without its branch for min >= max
monteCarloUnguarded(min, mode0, max, us) ==
  LET mode == IF mode0 < min THEN min ELSE IF mode0 > max THEN max ELSE mode0
      n == Len(us)
      res == SortAsc([ i \in 1..n |-> triangularSample(min, mode, max, us[i]) ])
  IN [ mean |-> SumSeq(res) \div n,
       median |-> res[(n \div 2) + 1],
       p10 |-> res[(n \div 10) + 1],
       p90 |-> res[((n * 9) \div 10) + 1],
       probLoss |-> [ num |-> Len(SelectSeq(res, LAMBDA v : v < 0)),
                      den |-> n ] ]

\* probLoss is the fraction num / den
monteCarlo(min, mode0, max, us) ==
  IF min >= max
  THEN [ mean |-> mode0, median |-> mode0, p10 |-> min, p90 |-> max,
         probLoss |-> [num |-> IF min < 0 THEN 1 ELSE 0, den |-> 1] ]
  ELSE LET mode == IF mode0 < min THEN min ELSE IF mode0 > max THEN max ELSE mode0
           n == Len(us)
           res == SortAsc([ i \in 1..n |-> triangularSample(min, mode, max, us[i]) ])
       IN [ mean |-> SumSeq(res) \div n,
            median |-> res[(n \div 2) + 1],
            p10 |-> res[(n \div 10) + 1],
            p90 |-> res[((n * 9) \div 10) + 1],
            probLoss |-> [ num |-> Len(SelectSeq(res, LAMBDA v : v < 0)),
                           den |-> n ] ]

----------------------------------------------------------------------------
(* detectScoringPatterns.  Its result is the list of insights it returns,   *)
(* or threw when a TypeError leaves the function, which has no try block.  *)

Insight(type, criterion, alternative) ==
  [type |-> type, criterion |-> criterion, alternative |-> alternative]

\* rankings[0].score - rankings[rankings.length - 1].score < 1.0
spreadBelowOne(rankings) ==
  LET top == rankings[1].score
      bottom == rankings[Len(rankings)].score
  IN top.num * bottom.den - bottom.num * top.den < top.den * bottom.den

\* the rule that tests the spread against a limit it may reach
clusteredRuleInclusive(rankings) ==
  IF Len(rankings) >= 2 /\
     LET top == rankings[1].score
         bottom == rankings[Len(rankings)].score
     IN top.num * bottom.den - bottom.num * top.den <= top.den * bottom.den
  THEN << Insight("clustered", "", "") >>
  ELSE <<>>

clusteredRule(rankings) ==
  IF Len(rankings) >= 2 /\ spreadBelowOne(rankings)
  THEN << Insight("clustered", "", "") >>
  ELSE <<>>

\* criteria.filter((c) => c.id !== crit.id)
otherCriteria(criteria, crit) == SelectSeq(criteria, LAMBDA c : c.id # crit.id)

\* the test of the loop body for the j-th criterion
swings(j, rankings, alternatives, criteria, scores) ==
  LET altRankings ==
        calculateRankings(alternatives, otherCriteria(criteria, criteria[j]),
                          scores)
  IN Len(altRankings) >= 2 /\ altRankings[1].id # rankings[1].id

\* the loop that pushes a message for every criterion that swings
dominantRuleUnbroken(rankings, alternatives, criteria, scores) ==
  IF Len(rankings) >= 2 /\ Len(criteria) >= 2
  THEN LET hits == SelectSeq([j \in DOMAIN criteria |-> j],
                     LAMBDA j : swings(j, rankings, alternatives, criteria, scores))
       IN [ k \in DOMAIN hits |->
              Insight("dominant", criteria[hits[k]].name,
                calculateRankings(alternatives,
                  otherCriteria(criteria, criteria[hits[k]]), scores)[1].name) ]
  ELSE <<>>

\* the loop over the criteria, left by break at the first that swings
dominantRule(rankings, alternatives, criteria, scores) ==
  IF Len(rankings) >= 2 /\ Len(criteria) >= 2
  THEN LET hits == { j \in DOMAIN criteria :
                       swings(j, rankings, alternatives, criteria, scores) }
       IN IF hits = {} THEN <<>>
          ELSE LET j == CHOOSE h \in hits : \A g \in hits : h <= g
               IN << Insight("dominant", criteria[j].name,
                       calculateRankings(alternatives,
                         otherCriteria(criteria, criteria[j]), scores)[1].name) >>
  ELSE <<>>

\* the pairs (alt, crit) the loops visit whose entry s is != null
presentEntries(alternatives, criteria, scores) ==
  { p \in (DOMAIN alternatives) \X (DOMAIN criteria) :
      <<alternatives[p[1]].id, criteria[p[2]].id>> \in DOMAIN scores }

\* totalCount > 0 && highCount / totalCount > 0.7
inflatedRule(alternatives, criteria, scores) ==
  LET present == presentEntries(alternatives, criteria, scores)
      high == { p \in present :
                  scores[<<alternatives[p[1]].id, criteria[p[2]].id>>] >= 7 }
  IN IF Cardinality(present) > 0 /\
        10 * Cardinality(high) > 7 * Cardinality(present)
     THEN << Insight("inflated", "", "") >>
     ELSE <<>>

Returned(insights) == [threw |-> FALSE, insights |-> insights]

Threw == [threw |-> TRUE, insights |-> <<>>]

\* rankings.length and criteria.length throw on null, criteria.length being
\* read only when rankings.length is not 0, and so does for...of on null
detectScoringPatterns(rankings, alternatives, criteria, scores) ==
  IF rankings = NoArray THEN Threw
  ELSE IF Len(rankings) = 0 THEN Returned(<<>>)
  ELSE IF criteria = NoArray THEN Threw
  ELSE IF Len(criteria) = 0 THEN Returned(<<>>)
  ELSE IF alternatives = NoArray THEN Threw
  ELSE Returned(clusteredRule(rankings)
                \o dominantRule(rankings, alternatives, criteria, scores)
                \o inflatedRule(alternatives, criteria, scores))

----------------------------------------------------------------------------
(* classifyRisk, on a description given as a sequence of characters *)

\* the regular expression pat (a plain word) matches somewhere in s
Contains(s, pat) ==
  \E i \in 1..(Len(s) - Len(pat) + 1) : SubSeq(s, i, i + Len(pat) - 1) = pat

ContainsAny(s, pats) == \E pat \in pats : Contains(s, pat)

OrgWords1 ==
  { <<"e","x","e","c","u","t">>, <<"s","p","o","n","s","o","r">>,
    <<"p","o","l","i","t","i","c","s">>, <<"r","e","o","r","g">>,
    <<"b","u","d","g","e","t">>, <<"p","r","i","o","r","i","t","y">>,
    <<"c","o","m","p","e","t">> }

OrgWords2 ==
  { <<"r","e","g","u","l">>, <<"c","o","m","p","l","i","a","n">>,
    <<"l","e","g","a","l">>, <<"g","d","p","r">>, <<"a","u","d","i","t">> }

OrgWords3 ==
  { <<"t","a","l","e","n","t">>, <<"h","i","r","e">>, <<"t","e","a","m">>,
    <<"s","k","i","l","l">>, <<"c","a","p","a","c","i","t","y">> }

TechWords ==
  { <<"t","e","c","h">>, <<"i","n","t","e","g","r","a","t">>,
    <<"s","c","a","l","a","b">>, <<"i","n","f","r","a","s","t","r">>,
    <<"l","e","g","a","c","y">> }

MarketWords ==
  { <<"m","a","r","k","e","t">>, <<"c","o","m","p","e","t","i","t","o","r">>,
    <<"c","u","s","t","o","m","e","r">>, <<"d","e","m","a","n","d">> }

classifyRisk(desc) ==
  LET lower == toLowerCase(desc)
  IN IF ContainsAny(lower, OrgWords1) THEN "organizational"
     ELSE IF ContainsAny(lower, OrgWords2) THEN "organizational"
     ELSE IF ContainsAny(lower, OrgWords3) THEN "organizational"
     ELSE IF ContainsAny(lower, TechWords) THEN "technical"
     ELSE IF ContainsAny(lower, MarketWords) THEN "market"
     ELSE "other"

----------------------------------------------------------------------------
(* decisionReducer *)

ReduceSet(d, key, value) == [d EXCEPT ![key] = value]

ReduceSetMeta(d, value) == [d EXCEPT !.meta = value]

ReduceReset(d) == INITIAL_STATE

----------------------------------------------------------------------------
(* Initial local state of each stage component (its useState initialisers) *)

FramingMount(d) ==
  [ statement |-> d.statement,
    objectives |-> d.objectives,
    threshold |-> d.meta.threshold,
    reversibility |-> d.meta.reversibility,
    reversibilityLabel |-> d.meta.reversibilityLabel ]

AlternativesMount(d) ==
  [ alternatives |-> d.alternatives,
    aiLoading |-> FALSE,
    aiSuggestions |-> NOLIST,
    aiError |-> "" ]

\* the default criteria get fresh ids, whatever decision.criteria holds
CriteriaMount(seq) ==
  [ step |-> 0,
    criteria |-> [ i \in 1..Len(DEFAULT_CRITERIA_NAMES) |->
                     [id |-> seq + i, name |-> DEFAULT_CRITERIA_NAMES[i]] ],
    ranked |-> NOLIST,
    manualWeights |-> NOLIST ]

\* calls counts the generateScoringInsight calls of the component that have
\* not settled; askedFor is a history field, no state of the component: the
\* localScores that the last call of fetchAiInsight passed to
\* generateScoringInsight
ScoringMount(d) ==
  [ localScores |->
      [ p \in { <<a.id, c.id>> : a \in Range(d.alternatives),
                                 c \in Range(d.criteria) } |->
          ScoreAt(d.scores, p[1], p[2]) ],
    showResults |-> FALSE,
    aiInsight |-> "",
    aiInsightLoading |-> FALSE,
    askedFor |-> <<>>,
    calls |-> 0 ]

UncertaintyMount ==
  [ mcResult |-> NULL, isComputing |-> FALSE, validationError |-> "" ]

EmptyRisk ==
  [ description |-> <<>>, likelihood |-> "", impact |-> "",
    mitigation |-> "", theme |-> "other" ]

\* the mount effect starts fetchAiRisks when decision.topChoice is set;
\* recorded is a history field, no state of the component: the risk in the
\* form was appended to completedRisks and the form was not changed since
PreMortemMount(d) ==
  [ completedRisks |-> <<>>,
    currentRisk |-> EmptyRisk,
    recorded |-> FALSE,
    showReview |-> FALSE,
    aiRisks |-> NOLIST,
    aiRiskLoading |-> d.topChoice # NULL,
    aiRisksDismissed |-> FALSE,
    selectedAiRisks |-> {} ]

\* calls counts the refineMemo calls of the component that have not settled
SynthesisMount ==
  [ refinedMemo |-> "", memoRefining |-> FALSE, showRefined |-> FALSE,
    aiError |-> "", calls |-> 0 ]

\* closures of an unmounted component can no longer change what is shown
Abandon(calls) == [ i \in DOMAIN calls |-> [calls[i] EXCEPT !.live = FALSE] ]

\* The stage index becomes next after the record became d and the pending
\* continuations bs and ts: the component of a new stage is mounted with its
\* initial local state and the component left is unmounted.
Enter(next, d, bs, ts) ==
  /\ currentStageIdx' = next
  /\ IF next = currentStageIdx
     THEN /\ UNCHANGED idSeq
          /\ brainstorms' = bs
          /\ timers' = ts
          /\ UNCHANGED locals
     ELSE /\ StageId(next) = "criteria" =>
               idSeq + Len(DEFAULT_CRITERIA_NAMES) <= MaxIdSeq
          /\ idSeq' = IF StageId(next) = "criteria"
                      THEN idSeq + Len(DEFAULT_CRITERIA_NAMES) ELSE idSeq
          /\ brainstorms' = Abandon(bs)
          /\ timers' = Abandon(ts)
          /\ fr' = IF StageId(next) = "framing" THEN FramingMount(d) ELSE NULL
          /\ al' = IF StageId(next) = "alternatives"
                   THEN AlternativesMount(d) ELSE NULL
          /\ cr' = IF StageId(next) = "criteria"
                   THEN CriteriaMount(idSeq) ELSE NULL
          /\ sc' = IF StageId(next) = "scoring" THEN ScoringMount(d) ELSE NULL
          /\ un' = IF StageId(next) = "uncertainty"
                   THEN UncertaintyMount ELSE NULL
          /\ pm' = IF StageId(next) = "premortem" /\ shouldShowPreMortem(d)
                   THEN PreMortemMount(d) ELSE NULL
          /\ sy' = IF StageId(next) = "synthesis" THEN SynthesisMount ELSE NULL
  /\ UNCHANGED call

----------------------------------------------------------------------------
(* Initial state *)

\* no helper function is called directly: the wizard calls them in its handlers
NoCall == [fn |-> "none"]

InitWizard ==
  /\ decision = INITIAL_STATE
  /\ currentStageIdx = 0
  /\ idSeq = 0
  /\ fr = FramingMount(INITIAL_STATE)
  /\ al = NULL
  /\ cr = NULL
  /\ sc = NULL
  /\ un = NULL
  /\ pm = NULL
  /\ sy = NULL
  /\ brainstorms = <<>>
  /\ timers = <<>>

Init == InitWizard /\ call = NoCall

----------------------------------------------------------------------------
(* Stage 1: FramingStage *)

setStatement(v) ==
  /\ fr # NULL
  /\ fr' = [fr EXCEPT !.statement = v]
  /\ UNCHANGED <<decision, currentStageIdx, idSeq, al, cr, sc, un, pm,
                 brainstorms, timers,
                 sy, call>>

setObjectives(v) ==
  /\ fr # NULL
  /\ fr' = [fr EXCEPT !.objectives = v]
  /\ UNCHANGED <<decision, currentStageIdx, idSeq, al, cr, sc, un, pm,
                 brainstorms, timers,
                 sy, call>>

setThreshold(v) ==
  /\ fr # NULL
  /\ fr' = [fr EXCEPT !.threshold = v]
  /\ UNCHANGED <<decision, currentStageIdx, idSeq, al, cr, sc, un, pm,
                 brainstorms, timers,
                 sy, call>>

setReversibility(opt) ==
  /\ fr # NULL
  /\ fr' = [fr EXCEPT !.reversibility = opt.value,
                      !.reversibilityLabel = opt.label]
  /\ UNCHANGED <<decision, currentStageIdx, idSeq, al, cr, sc, un, pm,
                 brainstorms, timers,
                 sy, call>>

\* const isValid = statement.trim() && objectives.trim() && threshold > 0
\*                 && reversibility
FramingIsValid(f) ==
  /\ f.statement # ""
  /\ f.objectives # ""
  /\ f.threshold > 0
  /\ f.reversibility # ""

\* FramingStage.handleContinue, behind the button's disabled={!isValid}
FramingHandleContinue ==
  /\ fr # NULL
  /\ IF FramingIsValid(fr)
     THEN LET d1 == ReduceSet(decision, "statement", fr.statement)
              d2 == ReduceSet(d1, "objectives", fr.objectives)
              d3 == ReduceSetMeta(d2,
                      [threshold |-> fr.threshold,
                       reversibility |-> fr.reversibility,
                       reversibilityLabel |-> fr.reversibilityLabel])
          IN /\ decision' = d3
             /\ Enter(GoNextIdx(currentStageIdx, shouldShowPreMortem(decision)),
                      d3, brainstorms, timers)
     ELSE UNCHANGED vars

----------------------------------------------------------------------------
(* Stage 2: AlternativesStage *)

\* addAlternative with newAlt = name
addAlternative(name) ==
  /\ al # NULL
  /\ name # ""
  /\ Len(al.alternatives) < MaxAlternatives
  /\ idSeq < MaxIdSeq
  /\ idSeq' = idSeq + 1
  /\ al' = [al EXCEPT !.alternatives =
                 Append(@, [id |-> idSeq + 1, name |-> name])]
  /\ UNCHANGED <<decision, currentStageIdx, fr, cr, sc, un, pm,
                 brainstorms, timers,
                 sy, call>>

\* the X button of row i: removeAlternative(alt.id)
removeAlternative(i) ==
  /\ al # NULL
  /\ i \in DOMAIN al.alternatives
  /\ Len(al.alternatives) > MinAlternatives
  /\ al' = [al EXCEPT !.alternatives =
                 SelectSeq(@, LAMBDA a : a.id # al.alternatives[i].id)]
  /\ UNCHANGED <<decision, currentStageIdx, idSeq, fr, cr, sc, un, pm,
                 brainstorms, timers,
                 sy, call>>

\* onChange of the name input of row i
renameAlternative(i, name) ==
  /\ al # NULL
  /\ i \in DOMAIN al.alternatives
  /\ al' = [al EXCEPT !.alternatives[i].name = name]
  /\ UNCHANGED <<decision, currentStageIdx, idSeq, fr, cr, sc, un, pm,
                 brainstorms, timers,
                 sy, call>>

\* the + button of suggestion s in the AI panel
acceptSuggestion(j) ==
  /\ al # NULL
  /\ al.aiSuggestions # NOLIST
  /\ ~al.aiLoading
  /\ j \in DOMAIN al.aiSuggestions
  /\ Len(al.alternatives) < MaxAlternatives
  /\ idSeq < MaxIdSeq
  /\ idSeq' = idSeq + 1
  /\ al' = [al EXCEPT !.alternatives =
                 Append(@, [id |-> idSeq + 1, name |-> al.aiSuggestions[j]])]
  /\ UNCHANGED <<decision, currentStageIdx, fr, cr, sc, un, pm,
                 brainstorms, timers,
                 sy, call>>

\* finishAndContinue(): dispatch the alternatives the closure holds, then
\* onComplete() = the goNext the closure captured
finishAndContinue(alts, showPM, bs) ==
  LET d == ReduceSet(decision, "alternatives", alts)
  IN /\ decision' = d
     /\ Enter(GoNextIdx(currentStageIdx, showPM), d, bs, timers)

\* "Brainstorm Hybrid Options": handleNext up to its await
handleNext ==
  /\ al # NULL
  /\ al.aiSuggestions = NOLIST /\ ~al.aiLoading /\ al.aiError = ""
  /\ Len(al.alternatives) >= MinAlternatives
  /\ Len(brainstorms) < MaxBrainstorms
  /\ decision' = ReduceSet(decision, "alternatives", al.alternatives)
  /\ al' = [al EXCEPT !.aiLoading = TRUE, !.aiError = ""]
  /\ brainstorms' = Append(brainstorms,
        [ alternatives |-> al.alternatives,
          showPM |-> shouldShowPreMortem(decision),
          live |-> TRUE ])
  /\ UNCHANGED <<currentStageIdx, idSeq, fr, cr, sc, un, pm, timers,
                 sy, call>>

RemoveAt(s, i) == SubSeq(s, 1, i - 1) \o SubSeq(s, i + 1, Len(s))

\* handleNext after its await, the call having resolved with result
brainstormResolves(i, result) ==
  /\ i \in DOMAIN brainstorms
  /\ LET c == brainstorms[i]
         rest == RemoveAt(brainstorms, i)
     IN IF result # NULL /\ Len(result.suggestions) > 0
        THEN /\ al' = IF c.live
                      THEN [al EXCEPT !.aiSuggestions = result.suggestions,
                                      !.aiLoading = FALSE]
                      ELSE al
             /\ brainstorms' = rest
             /\ UNCHANGED <<decision, currentStageIdx, idSeq, fr, cr, sc, un,
                            pm, timers,
                 sy, call>>
        ELSE finishAndContinue(c.alternatives, c.showPM, rest)

\* handleNext after its await, the call having thrown (error or timeout)
brainstormRejects(i) ==
  /\ i \in DOMAIN brainstorms
  /\ al' = IF brainstorms[i].live
           THEN [al EXCEPT !.aiError = "AI unavailable", !.aiLoading = FALSE]
           ELSE al
  /\ brainstorms' = RemoveAt(brainstorms, i)
  /\ UNCHANGED <<decision, currentStageIdx, idSeq, fr, cr, sc, un, pm, timers,
                 sy, call>>

\* "Continue without AI", shown with aiError
continueWithoutAI ==
  /\ al # NULL
  /\ al.aiError # ""
  /\ finishAndContinue(al.alternatives, shouldShowPreMortem(decision),
                       brainstorms)

\* "Continue to Criteria", shown with the suggestions
continueToCriteria ==
  /\ al # NULL
  /\ al.aiSuggestions # NOLIST /\ ~al.aiLoading
  /\ finishAndContinue(al.alternatives, shouldShowPreMortem(decision),
                       brainstorms)

\* "Skip AI - Next", disabled={alternatives.length < 2}
skipAINext ==
  /\ al # NULL
  /\ al.aiSuggestions = NOLIST /\ ~al.aiLoading
  /\ Len(al.alternatives) >= MinAlternatives
  /\ finishAndContinue(al.alternatives, shouldShowPreMortem(decision),
                       brainstorms)

\* goBack, the onBack of every stage that has a Back button
goBack ==
  /\ UNCHANGED decision
  /\ Enter(GoBackIdx(currentStageIdx, shouldShowPreMortem(decision)),
           decision, brainstorms, timers)

alternativesBack ==
  /\ al # NULL
  /\ al.aiSuggestions = NOLIST /\ ~al.aiLoading
  /\ goBack

----------------------------------------------------------------------------
(* Stage 3: CriteriaStage *)

getDefaultWeights(count) ==
  CASE count = 2 -> <<60, 40>>
    [] count = 3 -> <<45, 35, 20>>
    [] count = 4 -> <<35, 25, 25, 15>>
    [] count = 5 -> <<35, 25, 20, 15, 5>>
    [] OTHER -> [i \in 1..count |-> (200 \div count + 1) \div 2]

\* the X button of row i, rendered when criteria.length > 2
removeCriterion(i) ==
  /\ cr # NULL
  /\ cr.step = 0
  /\ i \in DOMAIN cr.criteria
  /\ Len(cr.criteria) > MinCriteria
  /\ cr' = [cr EXCEPT !.criteria =
                 SelectSeq(@, LAMBDA c : c.id # cr.criteria[i].id)]
  /\ UNCHANGED <<decision, currentStageIdx, idSeq, fr, al, sc, un, pm,
                 brainstorms, timers,
                 sy, call>>

\* the + button (or Enter) with newCrit = name
addCriterion(name) ==
  /\ cr # NULL
  /\ cr.step = 0
  /\ Len(cr.criteria) < MaxCriteria
  /\ name # ""
  /\ idSeq < MaxIdSeq
  /\ idSeq' = idSeq + 1
  /\ cr' = [cr EXCEPT !.criteria = Append(@, [id |-> idSeq + 1, name |-> name])]
  /\ UNCHANGED <<decision, currentStageIdx, fr, al, sc, un, pm,
                 brainstorms, timers,
                 sy, call>>

\* "Rank & Weight", disabled={criteria.length < 2}
startRanking ==
  /\ cr # NULL
  /\ cr.step = 0
  /\ Len(cr.criteria) >= MinCriteria
  /\ cr' = [cr EXCEPT !.ranked = cr.criteria,
                      !.manualWeights = getDefaultWeights(Len(cr.criteria)),
                      !.step = 1]
  /\ UNCHANGED <<decision, currentStageIdx, idSeq, fr, al, sc, un, pm,
                 brainstorms, timers,
                 sy, call>>

\* onChange of weight input i:
\* next[i] = Math.max(0, Math.min(100, Number(e.target.value) || 0))
setManualWeight(i, v) ==
  /\ cr # NULL
  /\ cr.step = 1
  /\ i \in DOMAIN cr.manualWeights
  /\ LET edited == [cr.manualWeights EXCEPT ![i] = Max(0, Min(100, v))]
         proposed == getDefaultWeights(Len(cr.ranked))
     IN /\ Cardinality({ k \in DOMAIN edited : edited[k] # proposed[k] })
             <= MaxWeightEdits
        /\ cr' = [cr EXCEPT !.manualWeights = edited]
  /\ UNCHANGED <<decision, currentStageIdx, idSeq, fr, al, sc, un, pm,
                 brainstorms, timers,
                 sy, call>>

\* "Edit Criteria": setStep(0)
editCriteria ==
  /\ cr # NULL
  /\ cr.step = 1
  /\ cr' = [cr EXCEPT !.step = 0]
  /\ UNCHANGED <<decision, currentStageIdx, idSeq, fr, al, sc, un, pm,
                 brainstorms, timers,
                 sy, call>>

weightSum(c) == IF c.manualWeights # NOLIST THEN SumSeq(c.manualWeights) ELSE 0

\* a guard that tolerates a deviation of three points
weightsValidNear(c) ==
  IF c.manualWeights # NOLIST
  THEN SumSeq(c.manualWeights) >= 97 /\ SumSeq(c.manualWeights) <= 103
  ELSE FALSE

\* Math.abs(weightSum - 100) < 0.01, on integers
weightsValid(c) == IF c.manualWeights # NOLIST THEN weightSum(c) = 100 ELSE FALSE

\* weight: (manualWeights[i] || 5) / 100, in hundredths
storedWeight(w) == IF w = 0 THEN DefaultWeightPct ELSE w

\* confirmWeights, behind the button's disabled={!weightsValid}
confirmWeights ==
  /\ cr # NULL
  /\ cr.step = 1
  /\ IF weightsValid(cr)
     THEN LET weighted ==
                [ i \in DOMAIN cr.ranked |->
                    [ id |-> cr.ranked[i].id, name |-> cr.ranked[i].name,
                      weight |-> storedWeight(cr.manualWeights[i]) ] ]
              d == ReduceSet(decision, "criteria", weighted)
          IN /\ decision' = d
             /\ Enter(GoNextIdx(currentStageIdx, shouldShowPreMortem(decision)),
                      d, brainstorms, timers)
     ELSE UNCHANGED vars

criteriaBack ==
  /\ cr # NULL
  /\ cr.step = 0
  /\ goBack

----------------------------------------------------------------------------
(* Stage 4: ScoringStage *)

\* useMemo(() => calculateRankings(alternatives, criteria, localScores))
rankings == calculateRankings(decision.alternatives, decision.criteria,
                              sc.localScores)

\* onChange of the slider of alternative a and criterion c
setLocalScore(a, c, v) ==
  /\ sc # NULL
  /\ ~sc.showResults
  /\ a \in DOMAIN decision.alternatives
  /\ c \in DOMAIN decision.criteria
  /\ LET cell == <<decision.alternatives[a].id, decision.criteria[c].id>>
         edited == [sc.localScores EXCEPT ![cell] = v]
     IN /\ Cardinality({ q \in DOMAIN edited : edited[q] # DefaultScore })
             <= MaxScoreEdits
        /\ sc' = [sc EXCEPT !.localScores = edited]
  /\ UNCHANGED <<decision, currentStageIdx, idSeq, fr, al, cr, un, pm,
                 brainstorms, timers,
                 sy, call>>

\* the condition of the effect without its test of aiInsightLoading
insightEffectAlways(s) == s.aiInsight = ""

\* the condition of the effect on showResults, showResults being true
insightEffectFires(s) == s.aiInsight = "" /\ ~s.aiInsightLoading

\* "See Results", and the effect it triggers: fetchAiInsight up to its await
seeResults ==
  /\ sc # NULL
  /\ ~sc.showResults
  /\ decision' = ReduceSet(decision, "scores", sc.localScores)
  /\ IF insightEffectFires(sc) /\ Len(rankings) >= 2
     THEN /\ sc.calls < MaxInsightCalls
          /\ sc' = [sc EXCEPT !.showResults = TRUE,
                              !.aiInsightLoading = TRUE,
                              !.askedFor = sc.localScores,
                              !.calls = @ + 1]
     ELSE sc' = [sc EXCEPT !.showResults = TRUE]
  /\ UNCHANGED <<currentStageIdx, idSeq, fr, al, cr, un, pm, brainstorms, timers,
                 sy, call>>

\* fetchAiInsight after its await, generateScoringInsight having resolved
insightResolves(result) ==
  /\ sc # NULL
  /\ sc.calls > 0
  /\ sc' = [sc EXCEPT !.aiInsight = result, !.aiInsightLoading = FALSE,
                      !.calls = @ - 1]
  /\ UNCHANGED <<decision, currentStageIdx, idSeq, fr, al, cr, un, pm,
                 brainstorms, timers, sy, call>>

\* fetchAiInsight after its await, generateScoringInsight having thrown
insightRejects ==
  /\ sc # NULL
  /\ sc.calls > 0
  /\ sc' = [sc EXCEPT !.aiInsightLoading = FALSE, !.calls = @ - 1]
  /\ UNCHANGED <<decision, currentStageIdx, idSeq, fr, al, cr, un, pm,
                 brainstorms, timers, sy, call>>

\* "Adjust Scores"
adjustScores ==
  /\ sc # NULL
  /\ sc.showResults
  /\ sc' = [sc EXCEPT !.showResults = FALSE, !.aiInsight = ""]
  /\ UNCHANGED <<decision, currentStageIdx, idSeq, fr, al, cr, un, pm,
                 brainstorms, timers,
                 sy, call>>

\* handleContinue of the results view; with no ranking topAlt is undefined
\* and topAlt.id throws after the scores were dispatched
ScoringHandleContinue ==
  /\ sc # NULL
  /\ sc.showResults
  /\ LET d1 == ReduceSet(decision, "scores", sc.localScores)
     IN IF rankings = <<>>
        THEN /\ decision' = d1
             /\ UNCHANGED <<currentStageIdx, idSeq, fr, al, cr, sc, un, pm,
                            brainstorms, timers,
                 sy, call>>
        ELSE LET topAlt == rankings[1]
                 d2 == ReduceSet(d1, "topChoice",
                         [ id |-> topAlt.id, name |-> topAlt.name,
                           bestCase |-> 0, mostLikely |-> 0, worstCase |-> 0 ])
             IN /\ decision' = d2
                /\ Enter(GoNextIdx(currentStageIdx, shouldShowPreMortem(decision)),
                         d2, brainstorms, timers)

scoringBack ==
  /\ sc # NULL
  /\ ~sc.showResults
  /\ goBack

----------------------------------------------------------------------------
(* Stage 5: UncertaintyStage.  The three texts are given to the handler that *)
(* reads them.                                                              *)

\* the form is rendered
UncertaintyForm == un # NULL /\ un.mcResult = NULL /\ ~un.isComputing

\* { ...decision.topChoice, bestCase: bv, mostLikely: mv, worstCase: wv }
withCases(topChoice, bv, mv, wv) ==
  IF topChoice = NULL
  THEN [bestCase |-> bv, mostLikely |-> mv, worstCase |-> wv]
  ELSE [topChoice EXCEPT !.bestCase = bv, !.mostLikely = mv, !.worstCase = wv]

\* handleSubmitValues with the texts best, likely and worst in the fields
handleSubmitValues(best, likely, worst) ==
  /\ UncertaintyForm
  /\ ~IsBlank(best) /\ ~IsBlank(likely) /\ ~IsBlank(worst)
  /\ LET bv == parseNum(best)
         mv == parseNum(likely)
         wv == parseNum(worst)
     IN IF bv.nan \/ mv.nan \/ wv.nan
        THEN /\ un' = [un EXCEPT !.validationError = "valid numbers"]
             /\ UNCHANGED timers
        ELSE IF bv.val <= wv.val
        THEN /\ un' = [un EXCEPT !.validationError = "best above worst"]
             /\ UNCHANGED timers
        ELSE IF mv.val > bv.val \/ mv.val < wv.val
        THEN /\ un' = [un EXCEPT !.validationError = "most likely between"]
             /\ UNCHANGED timers
        ELSE /\ Len(timers) < MaxTimers
             /\ un' = [un EXCEPT !.validationError = "", !.isComputing = TRUE]
             /\ timers' = Append(timers,
                  [ wv |-> wv.val, mv |-> mv.val, bv |-> bv.val,
                    topChoice |-> decision.topChoice, live |-> TRUE ])
  /\ UNCHANGED <<decision, currentStageIdx, idSeq, fr, al, cr, sc, pm,
                 brainstorms,
                 sy, call>>

\* the callback of setTimeout, Math.random() returning the draws us
timerFires(i, us) ==
  /\ i \in DOMAIN timers
  /\ LET c == timers[i]
         result == monteCarlo(c.wv, c.mv, c.bv, us)
     IN /\ un' = IF c.live
                 THEN [un EXCEPT !.mcResult = result, !.isComputing = FALSE]
                 ELSE un
        /\ decision' =
             ReduceSet(ReduceSet(decision, "topChoice",
                                 withCases(c.topChoice, c.bv, c.mv, c.wv)),
                       "mcResult", result)
  /\ timers' = RemoveAt(timers, i)
  /\ UNCHANGED <<currentStageIdx, idSeq, fr, al, cr, sc, pm, brainstorms,
                 sy, call>>

\* onChange of the worst-case field
setWorstCase ==
  /\ UncertaintyForm
  /\ un.validationError # ""
  /\ un' = [un EXCEPT !.validationError = ""]
  /\ UNCHANGED <<decision, currentStageIdx, idSeq, fr, al, cr, sc, pm,
                 brainstorms, timers,
                 sy, call>>

\* "Adjust Estimates"
adjustEstimates ==
  /\ un # NULL
  /\ un.mcResult # NULL /\ ~un.isComputing
  /\ un' = [un EXCEPT !.mcResult = NULL, !.validationError = ""]
  /\ UNCHANGED <<decision, currentStageIdx, idSeq, fr, al, cr, sc, pm,
                 brainstorms, timers,
                 sy, call>>

\* the "Risk Audit" / "Generate Memo" button: onComplete
uncertaintyComplete ==
  /\ un # NULL
  /\ un.mcResult # NULL /\ ~un.isComputing
  /\ UNCHANGED decision
  /\ Enter(GoNextIdx(currentStageIdx, shouldShowPreMortem(decision)),
           decision, brainstorms, timers)

uncertaintyBack ==
  /\ UncertaintyForm
  /\ goBack

----------------------------------------------------------------------------
(* Stage 6: PreMortemStage *)

\* the AI panel lists the suggested risks
AiRisksShown ==
  /\ pm # NULL
  /\ ~pm.showReview /\ ~pm.aiRisksDismissed
  /\ pm.aiRisks # NOLIST /\ ~pm.aiRiskLoading

\* the manual entry form is rendered
ManualEntry == pm # NULL /\ ~pm.showReview /\ pm.aiRisksDismissed

\* fetchAiRisks after its await, brainstormRisks having resolved with risks
aiRisksResolve(risks) ==
  /\ pm # NULL
  /\ pm.aiRiskLoading
  /\ pm' = IF Len(risks) > 0
           THEN [pm EXCEPT !.aiRisks = risks, !.aiRiskLoading = FALSE]
           ELSE [pm EXCEPT !.aiRisksDismissed = TRUE, !.aiRiskLoading = FALSE]
  /\ UNCHANGED <<decision, currentStageIdx, idSeq, fr, al, cr, sc, un,
                 brainstorms, timers,
                 sy, call>>

\* fetchAiRisks with a catch block that leaves aiRisksDismissed alone
aiRisksRejectUndismissed ==
  /\ pm # NULL
  /\ pm.aiRiskLoading
  /\ pm' = [pm EXCEPT !.aiRiskLoading = FALSE]
  /\ UNCHANGED <<decision, currentStageIdx, idSeq, fr, al, cr, sc, un,
                 brainstorms, timers,
                 sy, call>>

\* fetchAiRisks after its await, brainstormRisks having thrown
aiRisksReject ==
  /\ pm # NULL
  /\ pm.aiRiskLoading
  /\ pm' = [pm EXCEPT !.aiRisksDismissed = TRUE, !.aiRiskLoading = FALSE]
  /\ UNCHANGED <<decision, currentStageIdx, idSeq, fr, al, cr, sc, un,
                 brainstorms, timers,
                 sy, call>>

\* the checkbox of suggested risk i
toggleAiRisk(i) ==
  /\ AiRisksShown
  /\ i \in DOMAIN pm.aiRisks
  /\ pm' = [pm EXCEPT !.selectedAiRisks =
                 IF i \in @ THEN @ \ {i} ELSE @ \cup {i}]
  /\ UNCHANGED <<decision, currentStageIdx, idSeq, fr, al, cr, sc, un,
                 brainstorms, timers,
                 sy, call>>

\* suggestedLikelihood || 'medium'
orMedium(level) == IF level = "" THEN "medium" ELSE level

\* "Add Selected", disabled with nothing selected
addSelectedAiRisks ==
  /\ AiRisksShown
  /\ pm.selectedAiRisks # {}
  /\ LET picked == SelectSeq([i \in DOMAIN pm.aiRisks |-> i],
                             LAMBDA i : i \in pm.selectedAiRisks)
         toAdd == [ k \in DOMAIN picked |->
                      LET r == pm.aiRisks[picked[k]]
                      IN [ description |-> r.description,
                           theme |-> classifyRisk(r.description),
                           likelihood |-> orMedium(r.suggestedLikelihood),
                           impact |-> orMedium(r.suggestedImpact),
                           mitigation |-> "" ] ]
     IN /\ Len(pm.completedRisks) + Len(toAdd) <= MaxRisksLen
        /\ pm' = [pm EXCEPT !.completedRisks = @ \o toAdd,
                            !.aiRisksDismissed = TRUE]
  /\ UNCHANGED <<decision, currentStageIdx, idSeq, fr, al, cr, sc, un,
                 brainstorms, timers,
                 sy, call>>

\* "Write My Own"
writeMyOwn ==
  /\ AiRisksShown
  /\ pm' = [pm EXCEPT !.aiRisksDismissed = TRUE]
  /\ UNCHANGED <<decision, currentStageIdx, idSeq, fr, al, cr, sc, un,
                 brainstorms, timers,
                 sy, call>>

\* onChange of the description field
setRiskDescription(v) ==
  /\ ManualEntry
  /\ pm' = [pm EXCEPT !.currentRisk.description = v,
                      !.currentRisk.theme = classifyRisk(v),
                      !.recorded = @ /\ v = pm.currentRisk.description]
  /\ UNCHANGED <<decision, currentStageIdx, idSeq, fr, al, cr, sc, un,
                 brainstorms, timers,
                 sy, call>>

setRiskLikelihood(level) ==
  /\ ManualEntry
  /\ pm' = [pm EXCEPT !.currentRisk.likelihood = level,
                      !.recorded = @ /\ level = pm.currentRisk.likelihood]
  /\ UNCHANGED <<decision, currentStageIdx, idSeq, fr, al, cr, sc, un,
                 brainstorms, timers,
                 sy, call>>

setRiskImpact(level) ==
  /\ ManualEntry
  /\ pm' = [pm EXCEPT !.currentRisk.impact = level,
                      !.recorded = @ /\ level = pm.currentRisk.impact]
  /\ UNCHANGED <<decision, currentStageIdx, idSeq, fr, al, cr, sc, un,
                 brainstorms, timers,
                 sy, call>>

\* currentRisk.description?.trim() && currentRisk.likelihood && currentRisk.impact
isCurrentValid(risk) ==
  ~IsBlank(risk.description) /\ risk.likelihood # "" /\ risk.impact # ""

\* "Add Risk", disabled={!isCurrentValid}
addRiskAndNext ==
  /\ ManualEntry
  /\ IF ~isCurrentValid(pm.currentRisk) THEN UNCHANGED pm
     ELSE /\ Len(pm.completedRisks) < MaxRisksLen
          /\ LET newCompleted == Append(pm.completedRisks, pm.currentRisk)
             IN pm' = IF Len(newCompleted) >= ReviewAtRisks
                      THEN [pm EXCEPT !.completedRisks = newCompleted,
                                      !.showReview = TRUE,
                                      !.recorded = TRUE]
                      ELSE [pm EXCEPT !.completedRisks = newCompleted,
                                      !.currentRisk = EmptyRisk,
                                      !.recorded = FALSE]
  /\ UNCHANGED <<decision, currentStageIdx, idSeq, fr, al, cr, sc, un,
                 brainstorms, timers,
                 sy, call>>

\* "Review Risks", rendered when completedRisks.length >= 1
reviewRisks ==
  /\ ManualEntry
  /\ Len(pm.completedRisks) >= 1
  /\ isCurrentValid(pm.currentRisk) => Len(pm.completedRisks) < MaxRisksLen
  /\ pm' = [pm EXCEPT !.completedRisks =
                        IF isCurrentValid(pm.currentRisk)
                        THEN Append(@, pm.currentRisk) ELSE @,
                      !.recorded = @ \/ isCurrentValid(pm.currentRisk),
                      !.showReview = TRUE]
  /\ UNCHANGED <<decision, currentStageIdx, idSeq, fr, al, cr, sc, un,
                 brainstorms, timers,
                 sy, call>>

\* "Add More" of the review view
addMore ==
  /\ pm # NULL
  /\ pm.showReview
  /\ pm' = [pm EXCEPT !.showReview = FALSE]
  /\ UNCHANGED <<decision, currentStageIdx, idSeq, fr, al, cr, sc, un,
                 brainstorms, timers,
                 sy, call>>

\* handleComplete, the "Generate Memo" button of the review view
PreMortemHandleComplete ==
  /\ pm # NULL
  /\ pm.showReview
  /\ LET d == ReduceSet(decision, "risks", pm.completedRisks)
     IN /\ decision' = d
        /\ Enter(GoNextIdx(currentStageIdx, shouldShowPreMortem(decision)),
                 d, brainstorms, timers)

premortemBack ==
  /\ ManualEntry
  /\ goBack

----------------------------------------------------------------------------
(* Stage 7: SynthesisStage *)

\* "Refine with AI", rendered when !refinedMemo && !memoRefining:
\* handleRefineWithAI up to its await of refineMemo
handleRefineWithAI ==
  /\ sy # NULL
  /\ sy.refinedMemo = "" /\ ~sy.memoRefining
  /\ sy.calls < MaxRefineCalls
  /\ sy' = [sy EXCEPT !.memoRefining = TRUE, !.calls = @ + 1]
  /\ UNCHANGED <<decision, currentStageIdx, idSeq, fr, al, cr, sc, un, pm,
                 brainstorms, timers, call>>

\* handleRefineWithAI after its await, refineMemo having resolved
refineResolves(result) ==
  /\ sy # NULL
  /\ sy.calls > 0
  /\ sy' = [sy EXCEPT !.refinedMemo = result, !.showRefined = TRUE,
                      !.memoRefining = FALSE, !.calls = @ - 1]
  /\ UNCHANGED <<decision, currentStageIdx, idSeq, fr, al, cr, sc, un, pm,
                 brainstorms, timers, call>>

\* handleRefineWithAI after its await, refineMemo having thrown
refineRejects ==
  /\ sy # NULL
  /\ sy.calls > 0
  /\ sy' = [sy EXCEPT !.aiError = "AI refinement failed",
                      !.memoRefining = FALSE, !.calls = @ - 1]
  /\ UNCHANGED <<decision, currentStageIdx, idSeq, fr, al, cr, sc, un, pm,
                 brainstorms, timers, call>>

\* setTimeout(() => setAiError(null), 6000)
aiErrorExpires ==
  /\ sy # NULL
  /\ sy.aiError # ""
  /\ sy' = [sy EXCEPT !.aiError = ""]
  /\ UNCHANGED <<decision, currentStageIdx, idSeq, fr, al, cr, sc, un, pm,
                 brainstorms, timers, call>>

\* the "Original" and "AI Refined" buttons
setShowRefined(v) ==
  /\ sy # NULL
  /\ sy.refinedMemo # "" /\ ~sy.memoRefining
  /\ sy' = [sy EXCEPT !.showRefined = v]
  /\ UNCHANGED <<decision, currentStageIdx, idSeq, fr, al, cr, sc, un, pm,
                 brainstorms, timers, call>>

----------------------------------------------------------------------------
(* DecisionLab: progress bar and reset *)

\* onClick={() => idx < currentStageIdx && setCurrentStageIdx(idx)}; the
\* premortem item is not rendered unless shouldShowPreMortem
ProgressBarClick(idx) ==
  /\ idx \in 0..LastStageIdx
  /\ idx < currentStageIdx
  /\ StageId(idx) = "premortem" => shouldShowPreMortem(decision)
  /\ UNCHANGED decision
  /\ Enter(idx, decision, brainstorms, timers)

\* resetApp, passed as onReset to SynthesisStage only
resetApp ==
  /\ StageId(currentStageIdx) = "synthesis"
  /\ decision' = ReduceReset(decision)
  /\ Enter(0, ReduceReset(decision), brainstorms, timers)

\* the handlers of a user who takes what each stage proposes: the two
\* alternatives the stage requires, the default criteria and weights, the
\* default scores, no AI brainstorm of alternatives and no refinement of the
\* memo, and who submits no estimates while a simulation is pending
Plain ==
  \/ \E v \in TextInputs : setStatement(v)
  \/ \E v \in TextInputs : setObjectives(v)
  \/ \E v \in ThresholdInputs : setThreshold(v)
  \/ \E o \in ReversibilityInputs : setReversibility(o)
  \/ FramingHandleContinue
  \/ \E n \in NameInputs :
        addAlternative(n) /\ Len(al.alternatives) < MinAlternatives
  \/ skipAINext
  \/ alternativesBack
  \/ startRanking
  \/ editCriteria
  \/ confirmWeights
  \/ criteriaBack
  \/ seeResults
  \/ \E r \in InsightResults : insightResolves(r)
  \/ insightRejects
  \/ adjustScores
  \/ ScoringHandleContinue
  \/ scoringBack
  \/ \E b \in BestInputs, m \in LikelyInputs, w \in WorstInputs :
        handleSubmitValues(b, m, w) /\ timers = <<>>
  \/ \E us \in Draws : timerFires(1, us)
  \/ setWorstCase
  \/ adjustEstimates
  \/ uncertaintyComplete
  \/ uncertaintyBack
  \/ \E r \in AiRiskResults : aiRisksResolve(r)
  \/ aiRisksReject
  \/ \E i \in 1..1 : toggleAiRisk(i)
  \/ addSelectedAiRisks
  \/ writeMyOwn
  \/ \E v \in DescriptionInputs : setRiskDescription(v)
  \/ \E l \in LevelInputs : setRiskLikelihood(l)
  \/ \E l \in LevelInputs : setRiskImpact(l)
  \/ addRiskAndNext
  \/ reviewRisks
  \/ addMore
  \/ PreMortemHandleComplete
  \/ premortemBack
  \/ \E idx \in 0..LastStageIdx : ProgressBarClick(idx)
  \/ resetApp

\* the AI brainstorm of alternatives, asked for while no other is pending
Brainstorm ==
  \/ handleNext /\ brainstorms = <<>>
  \/ \E i \in 1..MaxBrainstorms, r \in BrainstormResults :
        brainstormResolves(i, r)
  \/ \E i \in 1..MaxBrainstorms : brainstormRejects(i)
  \/ continueWithoutAI
  \/ continueToCriteria

\* typing into the name of a listed alternative
AlternativesRenames ==
  \E i \in 1..MaxAlternatives, n \in NameInputs : renameAlternative(i, n)

\* growing and shrinking the list of alternatives
AlternativesListEdits ==
  \/ \E n \in NameInputs : addAlternative(n)
  \/ \E i \in 1..MaxAlternatives : removeAlternative(i)
  \/ \E j \in 1..1 : acceptSuggestion(j)

\* typing into the weight inputs
WeightEdits ==
  \E i \in 1..MaxCriteria, v \in WeightInputs : setManualWeight(i, v)

\* growing and shrinking the list of criteria
CriteriaListEdits ==
  \/ \E i \in 1..MaxCriteria : removeCriterion(i)
  \/ \E n \in NameInputs : addCriterion(n)

\* moving the sliders of the score table
ScoreEdits ==
  \E a \in 1..MaxAlternatives, c \in 1..MaxCriteria, v \in ScoreInputs :
     setLocalScore(a, c, v)

\* a brainstorm asked for while that of an earlier visit is pending
Rebrainstorms == handleNext

\* other estimates submitted while the simulation of an earlier visit is
\* pending: no handler calls clearTimeout
Resubmits ==
  \E b \in BestInputs, m \in LaterLikelyInputs, w \in WorstInputs :
     handleSubmitValues(b, m, w) /\ timers # <<>>

\* the AI refinement of the memo
Refine ==
  \/ handleRefineWithAI
  \/ \E r \in RefineResults : refineResolves(r)
  \/ refineRejects
  \/ aiErrorExpires
  \/ \E v \in BOOLEAN : setShowRefined(v)

\* the wizard with every handler
Next ==
  \/ Plain
  \/ Brainstorm
  \/ Rebrainstorms
  \/ Resubmits
  \/ Refine
  \/ AlternativesRenames
  \/ AlternativesListEdits
  \/ WeightEdits
  \/ CriteriaListEdits
  \/ ScoreEdits

Spec == Init /\ [][Next]_vars

\* The state graph of Spec is too large to enumerate.  Each specification
\* below is the wizard of a user who makes one kind of optional edit; its
\* behaviours are behaviours of Spec.

\* the user edits no proposed list, weight or score and uses the AI brainstorm
NextCore == Plain \/ Brainstorm

SpecCore == Init /\ [][NextCore]_vars

\* the user's only edits are those of the alternatives' names
NextAlternatives == Plain \/ AlternativesRenames

SpecAlternatives == Init /\ [][NextAlternatives]_vars

\* the user's only edits are those of the weights
NextCriteria == Plain \/ WeightEdits

SpecCriteria == Init /\ [][NextCriteria]_vars

\* the user's only edits are those of the scores
NextScoring == Plain \/ ScoreEdits

SpecScoring == Init /\ [][NextScoring]_vars

\* the user's only edits are other estimates, submitted during a simulation
NextUncertainty == Plain \/ Resubmits

SpecUncertainty == Init /\ [][NextUncertainty]_vars

\* the user fills in the forms up to the Uncertainty stage, edits the weights
\* and moves with the buttons of the stages only
NextForms ==
  \/ \E v \in TextInputs : setStatement(v)
  \/ \E v \in TextInputs : setObjectives(v)
  \/ \E v \in ThresholdInputs : setThreshold(v)
  \/ \E o \in ReversibilityInputs : setReversibility(o)
  \/ FramingHandleContinue
  \/ \E n \in NameInputs :
        addAlternative(n) /\ Len(al.alternatives) < MinAlternatives
  \/ skipAINext
  \/ alternativesBack
  \/ startRanking
  \/ WeightEdits
  \/ editCriteria
  \/ confirmWeights
  \/ criteriaBack
  \/ seeResults
  \/ \E r \in InsightResults : insightResolves(r)
  \/ insightRejects
  \/ adjustScores
  \/ ScoringHandleContinue
  \/ scoringBack
  \/ \E b \in BestInputs, m \in LikelyInputs, w \in WorstInputs :
        handleSubmitValues(b, m, w) /\ timers = <<>>
  \/ \E us \in Draws : timerFires(1, us)
  \/ setWorstCase
  \/ adjustEstimates
  \/ uncertaintyBack

SpecForms == Init /\ [][NextForms]_vars

\* the user asks for the AI at every stage that offers it and waits for each
\* call to end, and every call fails: it throws (error or timeout) or resolves
\* with a malformed or an empty response
NextUnassisted ==
  \/ \E v \in TextInputs : setStatement(v)
  \/ \E v \in TextInputs : setObjectives(v)
  \/ \E v \in ThresholdInputs : setThreshold(v)
  \/ \E o \in ReversibilityInputs : setReversibility(o)
  \/ FramingHandleContinue
  \/ \E n \in NameInputs :
        addAlternative(n) /\ Len(al.alternatives) < MinAlternatives
  \/ handleNext /\ brainstorms = <<>>
  \/ \E i \in 1..MaxBrainstorms, r \in BrainstormResults :
        brainstormResolves(i, r) /\ (r = NULL \/ Len(r.suggestions) = 0)
  \/ \E i \in 1..MaxBrainstorms : brainstormRejects(i)
  \/ continueWithoutAI
  \/ alternativesBack
  \/ startRanking
  \/ confirmWeights
  \/ criteriaBack
  \/ seeResults
  \/ insightResolves("")
  \/ insightRejects
  \/ adjustScores
  \/ ScoringHandleContinue /\ ~sc.aiInsightLoading
  \/ scoringBack
  \/ \E b \in BestInputs, m \in LikelyInputs, w \in WorstInputs :
        handleSubmitValues(b, m, w) /\ timers = <<>>
  \/ \E us \in Draws : timerFires(1, us)
  \/ setWorstCase
  \/ adjustEstimates
  \/ uncertaintyComplete
  \/ uncertaintyBack
  \/ aiRisksResolve(NOLIST)
  \/ aiRisksReject
  \/ \E v \in DescriptionInputs : setRiskDescription(v)
  \/ \E l \in LevelInputs : setRiskLikelihood(l)
  \/ \E l \in LevelInputs : setRiskImpact(l)
  \/ addRiskAndNext
  \/ reviewRisks
  \/ addMore
  \/ PreMortemHandleComplete
  \/ premortemBack
  \/ handleRefineWithAI
  \/ refineResolves("")
  \/ refineRejects
  \/ aiErrorExpires
  \/ \E idx \in 0..LastStageIdx : ProgressBarClick(idx)
  \/ resetApp

SpecUnassisted == Init /\ [][NextUnassisted]_vars

\* the user of a decision below the cutoff of the Risks stage asks for the
\* AI at every stage that offers it, also while the brainstorm of an earlier
\* visit is pending, and the brainstorm, the insight and the refinement
\* succeed or fail
NextAssisted ==
  \/ \E v \in TextInputs : setStatement(v)
  \/ \E v \in TextInputs : setObjectives(v)
  \/ \E v \in ThresholdInputs : setThreshold(v) /\ v <= PreMortemCutoff
  \/ \E o \in ReversibilityInputs : setReversibility(o)
  \/ FramingHandleContinue
  \/ \E n \in NameInputs :
        addAlternative(n) /\ Len(al.alternatives) < MinAlternatives
  \/ Brainstorm
  \/ Rebrainstorms
  \/ alternativesBack
  \/ startRanking
  \/ confirmWeights
  \/ criteriaBack
  \/ seeResults
  \/ \E r \in InsightResults : insightResolves(r)
  \/ insightRejects
  \/ adjustScores
  \/ ScoringHandleContinue
  \/ scoringBack
  \/ \E b \in BestInputs, m \in LikelyInputs, w \in WorstInputs :
        handleSubmitValues(b, m, w) /\ timers = <<>>
  \/ \E us \in Draws : timerFires(1, us)
  \/ setWorstCase
  \/ uncertaintyComplete
  \/ uncertaintyBack
  \/ Refine
  \/ \E idx \in 0..LastStageIdx : ProgressBarClick(idx)
  \/ resetApp

SpecAssisted == Init /\ [][NextAssisted]_vars

\* What the runtime schedules by itself: a callback given to setTimeout is
\* run once its delay has passed.  Nothing makes a call of the AI service
\* settle: callServerAPI awaits fetch with no AbortController and no timer,
\* and callGeminiAPI clears its timer as soon as fetch has resolved, before
\* it awaits the body of the response.  Nothing makes the user click.
Scheduling ==
  /\ WF_vars(\E us \in Draws : timerFires(1, us))
  /\ WF_vars(aiErrorExpires)

\* the user asks for the AI at every stage, below and above the cutoff of the
\* Risks stage, under the scheduling of the runtime
NextScheduled == NextUnassisted \/ NextAssisted

SpecScheduled == Init /\ [][NextScheduled]_vars /\ Scheduling

----------------------------------------------------------------------------
(* Direct calls of calculateRankings, detectScoringPatterns, monteCarlo and  *)
(* classifyRisk.  The                                                        *)
(* variable call holds the function, its arguments and, once the call has   *)
(* returned, its result.                                                    *)

\* weights of the criteria given to calculateRankings, in hundredths
RankWeightInputs == {0, 30, 70}

\* a row of the score matrix: the score of the j-th criterion, 0 for a
\* missing entry
RankRowInputs ==
  { [j \in 1..MaxRankCriteria |-> 0],
    [j \in 1..MaxRankCriteria |-> 1],
    [j \in 1..MaxRankCriteria |-> 10],
    [j \in 1..MaxRankCriteria |-> IF j % 2 = 1 THEN 10 ELSE 1],
    [j \in 1..MaxRankCriteria |-> IF j % 2 = 1 THEN 0 ELSE 10] }

RankAlternatives(n) == [i \in 1..n |-> [id |-> i, name |-> "name"]]

RankCriteria(ws) ==
  [j \in DOMAIN ws |-> [id |-> 10 + j, name |-> "name", weight |-> ws[j]]]

\* the score matrix with the rows given, keyed by alternative id and
\* criterion id, without the missing entries
RankMatrix(rows, m) ==
  [ p \in { q \in (DOMAIN rows) \X (11..(10 + m)) : rows[q[1]][q[2] - 10] # 0 } |->
      rows[p[1]][p[2] - 10] ]

RankCalls ==
  { [ fn |-> "rank",
      args |-> << RankAlternatives(Len(rows)), RankCriteria(ws),
                  RankMatrix(rows, Len(ws)) >>,
      done |-> FALSE, out |-> <<>> ] :
      rows \in UNION { [1..n -> RankRowInputs] : n \in 0..MaxRankAlternatives },
      ws \in UNION { [1..m -> RankWeightInputs] : m \in 0..MaxRankCriteria } }

\* alternatives Build and Buy, criteria Cost 50%, Time 30%, Fit 20%
BuildOrBuy ==
  [ fn |-> "rank",
    args |-> << << [id |-> 1, name |-> "Build"], [id |-> 2, name |-> "Buy"] >>,
                << [id |-> 11, name |-> "Cost", weight |-> 50],
                   [id |-> 12, name |-> "Time", weight |-> 30],
                   [id |-> 13, name |-> "Fit", weight |-> 20] >>,
                ( <<1, 11>> :> 4 @@ <<1, 12>> :> 3 @@ <<1, 13>> :> 9 @@
                  <<2, 11>> :> 8 @@ <<2, 12>> :> 9 @@ <<2, 13>> :> 5 ) >>,
    done |-> FALSE, out |-> <<>> ]

\* calculateRankings given null for its alternatives or its criteria
MalformedRankCalls ==
  { [ fn |-> "rank", args |-> <<alts, crits, BuildOrBuy.args[3]>>,
      done |-> FALSE, out |-> <<>> ] :
      alts \in {NoArray, BuildOrBuy.args[1]},
      crits \in {NoArray, BuildOrBuy.args[2]} }

\* rows of the score matrices given to detectScoringPatterns
DetectRowInputs ==
  { [j \in 1..MaxRankCriteria |-> 10],
    [j \in 1..MaxRankCriteria |-> 7],
    [j \in 1..MaxRankCriteria |-> IF j % 2 = 1 THEN 10 ELSE 1],
    [j \in 1..MaxRankCriteria |-> IF j % 2 = 1 THEN 1 ELSE 10],
    [j \in 1..MaxRankCriteria |-> IF j % 2 = 1 THEN 0 ELSE 10] }

\* the list with its elements named after their positions
Named(list, names) ==
  [i \in DOMAIN list |-> [list[i] EXCEPT !.name = names[i]]]

AlternativeNames == <<"A", "B", "C", "D", "E">>

CriterionNames == <<"X", "Y", "Z", "W", "V">>

\* the call ScoringStage makes: the rankings are those of the other arguments
DetectCall(alternatives, criteria, scores) ==
  [ fn |-> "detect",
    args |-> << calculateRankings(alternatives, criteria, scores),
                alternatives, criteria, scores >>,
    done |-> FALSE, out |-> <<>> ]

DetectCalls ==
  { DetectCall(Named(RankAlternatives(Len(rows)), AlternativeNames),
               Named(RankCriteria(ws), CriterionNames),
               RankMatrix(rows, Len(ws))) :
      rows \in UNION { [1..n -> DetectRowInputs] : n \in 0..MaxRankAlternatives },
      ws \in UNION { [1..m -> RankWeightInputs] : m \in 0..MaxRankCriteria } }

\* two alternatives scored on criteria of weights 0.6 and 0.4 so that their
\* overall scores are low and high
TwoScoring(low, high) ==
  DetectCall(<< [id |-> 1, name |-> "A"], [id |-> 2, name |-> "B"] >>,
             << [id |-> 11, name |-> "X", weight |-> 60],
                [id |-> 12, name |-> "Y", weight |-> 40] >>,
             ( <<1, 11>> :> low[1] @@ <<1, 12>> :> low[2] @@
               <<2, 11>> :> high[1] @@ <<2, 12>> :> high[2] ))

\* overall scores 8.0 and 8.4, 3.0 and 9.0, 8.0 and 9.0
DetectExamples ==
  { TwoScoring(<<8, 8>>, <<8, 9>>), TwoScoring(<<3, 3>>, <<9, 9>>),
    TwoScoring(<<8, 8>>, <<9, 9>>) }

\* detectScoringPatterns given null for one or more of its arrays
MalformedDetectCalls ==
  LET given == TwoScoring(<<8, 8>>, <<8, 9>>).args
  IN { [ fn |-> "detect", args |-> <<ranked, alts, crits, given[4]>>,
         done |-> FALSE, out |-> <<>> ] :
         ranked \in {NoArray, <<>>, given[1]},
         alts \in {NoArray, given[2]},
         crits \in {NoArray, given[3]} }

SimulateInputs == {-100, 0, 100, 250}

\* what Math.random() returns during a run of n trials
SimulateDraws(n) == [1..n -> 0..(UDen - 1)]

SimulateCalls ==
  { [ fn |-> "simulate", args |-> <<min, mode, max, n>>,
      done |-> FALSE, out |-> <<>> ] :
      min \in SimulateInputs, mode \in SimulateInputs, max \in SimulateInputs,
      n \in 1..MaxSimulateTrials }

TeamLeaves ==
  <<
    "O", "u", "r", " ", "t", "o", "p", " ", "e", "n", "g", "i", "n", "e",
    "e", "r", " ", "o", "n", " ", "t", "h", "e", " ", "t", "e", "a", "m",
    " ", "m", "i", "g", "h", "t", " ", "l", "e", "a", "v", "e" >>

CompetitorLaunches ==
  <<
    "C", "o", "m", "p", "e", "t", "i", "t", "o", "r", " ", "l", "a", "u",
    "n", "c", "h", "e", "s", " ", "a", " ", "c", "h", "e", "a", "p", "e",
    "r", " ", "p", "r", "o", "d", "u", "c", "t" >>

LegacyInfrastructure ==
  <<
    "L", "e", "g", "a", "c", "y", " ", "i", "n", "f", "r", "a", "s", "t",
    "r", "u", "c", "t", "u", "r", "e", " ", "c", "a", "n", "'", "t", " ",
    "s", "c", "a", "l", "e" >>

OfficePlant ==
  <<
    "O", "f", "f", "i", "c", "e", " ", "p", "l", "a", "n", "t", " ", "d",
    "i", "e", "s" >>

PhraseInputs ==
  { <<>>, TeamLeaves, CompetitorLaunches, LegacyInfrastructure, OfficePlant,
    <<"B","u","d","g","e","t">>, <<"a","u","d","i","t">>,
    <<"T","E","C","H">>, <<"m","a","r","k","e","t">>,
    <<"c","u","s","t","o","m","e","r">> }

\* descriptions of one phrase, or of two phrases with a space between them
DescriptionsOfPhrases ==
  PhraseInputs \cup
    { p \o <<" ">> \o q : p \in PhraseInputs \ {<<>>}, q \in PhraseInputs \ {<<>>} }

ClassifyCalls ==
  { [ fn |-> "classify", args |-> <<d>>, done |-> FALSE, out |-> <<>> ] :
      d \in DescriptionsOfPhrases }

InitFunctions ==
  /\ InitWizard
  /\ call \in RankCalls \cup {BuildOrBuy} \cup MalformedRankCalls
               \cup DetectCalls \cup DetectExamples \cup MalformedDetectCalls
               \cup SimulateCalls \cup ClassifyCalls

rank ==
  /\ call.fn = "rank" /\ ~call.done
  /\ call' = [call EXCEPT !.done = TRUE,
                !.out = calculateRankings(call.args[1], call.args[2],
                                          call.args[3])]
  /\ UNCHANGED <<decision, currentStageIdx, idSeq, locals, brainstorms, timers>>

detect ==
  /\ call.fn = "detect" /\ ~call.done
  /\ call' = [call EXCEPT !.done = TRUE,
                !.out = detectScoringPatterns(call.args[1], call.args[2],
                                              call.args[3], call.args[4])]
  /\ UNCHANGED <<decision, currentStageIdx, idSeq, locals, brainstorms, timers>>

simulate(us) ==
  /\ call.fn = "simulate" /\ ~call.done
  /\ us \in SimulateDraws(call.args[4])
  /\ call' = [call EXCEPT !.done = TRUE,
                !.out = monteCarlo(call.args[1], call.args[2], call.args[3],
                                   us)]
  /\ UNCHANGED <<decision, currentStageIdx, idSeq, locals, brainstorms, timers>>

classify ==
  /\ call.fn = "classify" /\ ~call.done
  /\ call' = [call EXCEPT !.done = TRUE, !.out = classifyRisk(call.args[1])]
  /\ UNCHANGED <<decision, currentStageIdx, idSeq, locals, brainstorms, timers>>

NextFunctions ==
  \/ rank
  \/ detect
  \/ \E us \in UNION { SimulateDraws(n) : n \in 1..MaxSimulateTrials } :
        simulate(us)
  \/ classify

SpecFunctions == InitFunctions /\ [][NextFunctions]_vars

----------------------------------------------------------------------------
(* Properties of the wizard *)

Stage == StageId(currentStageIdx)

IndexOf(id) == CHOOSE i \in 0..LastStageIdx : StageId(i) = id

\* C1: whenever the threshold of the record is at most 100,000 the current
\* stage is not the Risks stage (premortem)
C1_NoRisksStageBelowCutoff ==
  decision.meta.threshold <= 100000 => Stage # "premortem"

\* C2: a step in which a brainstormAlternatives call answers after its
\* AlternativesStage was left changes neither the record nor the stage
C2_LateBrainstormDiscarded ==
  [][ (\E i \in DOMAIN brainstorms :
         /\ ~brainstorms[i].live
         /\ Abandon(brainstorms') = Abandon(RemoveAt(brainstorms, i)))
      => UNCHANGED <<decision, currentStageIdx>> ]_vars

\* C3: at the Scoring stage and at every later stage the weights of the
\* criteria of the record sum to 1, that is to 100 hundredths
C3_StoredWeightsSumToOne ==
  currentStageIdx >= IndexOf("scoring") =>
    SumSeq([i \in DOMAIN decision.criteria |-> decision.criteria[i].weight]) = 100

\* C4: a step from the Criteria stage to the Scoring stage is taken only with
\* 2 to 5 ranked criteria whose entered weights sum to exactly 100, and it
\* writes the criteria to the record
C4_ScoringOnlyAfterValidWeights ==
  [][ (Stage = "criteria" /\ StageId(currentStageIdx') = "scoring") =>
        /\ cr.step = 1
        /\ Len(cr.ranked) >= 2 /\ Len(cr.ranked) <= 5
        /\ SumSeq(cr.manualWeights) = 100
        /\ Len(decision'.criteria) = Len(cr.ranked) ]_vars

\* C5: a step forward to a later stage keeps the case values of the top
\* choice that were collected together with a simulation result
C5_ForwardKeepsCaseValues ==
  [][ (/\ currentStageIdx' > currentStageIdx
       /\ decision.mcResult # NULL
       /\ decision.topChoice # NULL)
      => /\ decision'.topChoice # NULL
         /\ decision'.topChoice.worstCase = decision.topChoice.worstCase
         /\ decision'.topChoice.mostLikely = decision.topChoice.mostLikely
         /\ decision'.topChoice.bestCase = decision.topChoice.bestCase ]_vars

\* C6: the reset of the wizard can be taken in every state, whatever the stage
C6_ResetFromEveryStage == ENABLED resetApp

\* some field of the Framing form is missing
FramingFieldMissing ==
  fr.statement = "" \/ fr.objectives = "" \/ fr.threshold <= 0
    \/ fr.reversibility = ""

\* the three texts are not numbers worst <= most likely <= best with worst < best
InvalidEstimates(best, likely, worst) ==
  LET bv == parseNum(best)
      mv == parseNum(likely)
      wv == parseNum(worst)
  IN \/ bv.nan \/ mv.nan \/ wv.nan
     \/ ~(wv.val < bv.val)
     \/ ~(wv.val <= mv.val /\ mv.val <= bv.val)

C8_SimulatedBeforeRisks ==
  Stage \in {"premortem", "synthesis"} =>
    /\ decision.mcResult # NULL
    /\ decision.topChoice # NULL
    /\ decision.topChoice.worstCase <= decision.topChoice.mostLikely
    /\ decision.topChoice.mostLikely <= decision.topChoice.bestCase
    /\ decision.topChoice.worstCase < decision.topChoice.bestCase

\* C9: at every stage after Alternatives the record lists 2 to 5
\* alternatives and each has a non-empty name
C9_AlternativesNamed ==
  currentStageIdx > IndexOf("alternatives") =>
    /\ Len(decision.alternatives) >= 2 /\ Len(decision.alternatives) <= 5
    /\ \A i \in DOMAIN decision.alternatives : decision.alternatives[i].name # ""

\* a recorded risk has a description, a likelihood and an impact
FullySpecified(r) ==
  ~IsBlank(r.description) /\ r.likelihood # "" /\ r.impact # ""

\* C10: a step from the Risks stage to the Synthesis stage leaves no risk in
\* the record that lacks its description, likelihood or impact
C10_SynthesisOnlyWithSpecifiedRisks ==
  [][ (Stage = "premortem" /\ StageId(currentStageIdx') = "synthesis") =>
        \A i \in DOMAIN decision'.risks : FullySpecified(decision'.risks[i]) ]_vars

----------------------------------------------------------------------------
(* Properties of calculateRankings, classifyRisk and monteCarlo *)

\* a direct call of calculateRankings has ended
RankEnded == call.fn = "rank" /\ call.done

\* a direct call of calculateRankings that gave it arrays has returned
RankReturned == RankEnded /\ NoArray \notin {call.args[1], call.args[2]}

\* the position of the alternative id in the list alternatives
PositionIn(alternatives, id) ==
  CHOOSE k \in DOMAIN alternatives : alternatives[k].id = id

C16_RankEmptyOnDegenerateInput ==
  (/\ RankReturned
   /\ \/ call.args[1] = <<>>
      \/ call.args[2] = <<>>
      \/ totalWeight(call.args[2]) = 0)
  => call.out = <<>>

\* alternatives and criteria were given, the weights were all 0 and the result
\* is empty
C16_Witness ==
  /\ RankReturned
  /\ Len(call.args[1]) >= 2
  /\ Len(call.args[2]) >= 2
  /\ totalWeight(call.args[2]) = 0
  /\ call.out = <<>>

\* C17: two alternatives of equal score come out of calculateRankings in the
\* order they had in the list given
C17_RankStable ==
  RankReturned =>
    \A i \in DOMAIN call.out : \A j \in DOMAIN call.out :
      (/\ i < j
       /\ call.out[i].score.num * call.out[j].score.den
            = call.out[j].score.num * call.out[i].score.den)
      => PositionIn(call.args[1], call.out[i].id)
           < PositionIn(call.args[1], call.out[j].id)

\* the third alternative of the input came out first and the first two, of
\* equal score, follow it in their order
C17_Witness ==
  /\ RankReturned
  /\ Len(call.out) = 3
  /\ call.out[1].id = 3 /\ call.out[2].id = 1 /\ call.out[3].id = 2
  /\ call.out[1].score.num > call.out[2].score.num
  /\ call.out[2].score.num = call.out[3].score.num

\* the call of the Build or Buy scenario has returned
BuildOrBuyReturned == RankReturned /\ call.args = BuildOrBuy.args

\* the entry e has the name given and the score tenths / 10
Scored(e, name, tenths) ==
  e.name = name /\ e.score.num * 10 = tenths * e.score.den

\* C18 as stated: in the Build or Buy scenario Buy is first with 8.7 and Build
\* second with 4.7
C18_BuildOrBuyAsStated ==
  BuildOrBuyReturned =>
    /\ Len(call.out) = 2
    /\ Scored(call.out[1], "Buy", 87)
    /\ Scored(call.out[2], "Build", 47)

\* C18 as amended: in the Build or Buy scenario Buy is first with 7.7 and
\* Build second with 4.7
C18_BuildOrBuy ==
  BuildOrBuyReturned =>
    /\ Len(call.out) = 2
    /\ Scored(call.out[1], "Buy", 77)
    /\ Scored(call.out[2], "Build", 47)

\* the scenario was ranked and the second alternative given came out first
C18_Witness ==
  /\ BuildOrBuyReturned
  /\ call.out[1].id = 2

\* a direct call of classifyRisk has returned
ClassifyReturned == call.fn = "classify" /\ call.done

\* C19: classifyRisk returns the theme of the first group, in the order
\* organizational (three groups), technical, market, that has a keyword in the
\* description, and other when none has; the four descriptions of the spec
\* are organizational, market, technical and other
C19_ClassifyByPrecedence ==
  ClassifyReturned =>
    LET lower == toLowerCase(call.args[1])
        org == ContainsAny(lower, OrgWords1 \cup OrgWords2 \cup OrgWords3)
        tech == ContainsAny(lower, TechWords)
        market == ContainsAny(lower, MarketWords)
    IN /\ org => call.out = "organizational"
       /\ (~org /\ tech) => call.out = "technical"
       /\ (~org /\ ~tech /\ market) => call.out = "market"
       /\ (~org /\ ~tech /\ ~market) => call.out = "other"
       /\ call.args[1] = TeamLeaves => call.out = "organizational"
       /\ call.args[1] = CompetitorLaunches => call.out = "market"
       /\ call.args[1] = LegacyInfrastructure => call.out = "technical"
       /\ call.args[1] = OfficePlant => call.out = "other"

\* a direct call of monteCarlo has returned
SimulateReturned == call.fn = "simulate" /\ call.done

\* C20: for min >= max monteCarlo returns mean = median = mode, p10 = min,
\* p90 = max and probLoss = 1 if min < 0 else 0, whatever Math.random() returns;
\* for (100, 100, 100) it returns 100 four times and probLoss 0
C20_SimulateDegenerate ==
  (SimulateReturned /\ call.args[1] >= call.args[3]) =>
    /\ call.out.mean = call.args[2]
    /\ call.out.median = call.args[2]
    /\ call.out.p10 = call.args[1]
    /\ call.out.p90 = call.args[3]
    /\ call.out.probLoss.num =
         (IF call.args[1] < 0 THEN 1 ELSE 0) * call.out.probLoss.den
    /\ \A us \in SimulateDraws(call.args[4]) :
         monteCarlo(call.args[1], call.args[2], call.args[3], us) = call.out
    /\ SubSeq(call.args, 1, 3) = <<100, 100, 100>> =>
         /\ call.out.mean = 100 /\ call.out.median = 100
         /\ call.out.p10 = 100 /\ call.out.p90 = 100
         /\ call.out.probLoss.num = 0

\* monteCarlo has returned for a range whose minimum lies above its maximum
\* and its mode
C20_Witness ==
  /\ SimulateReturned
  /\ SubSeq(call.args, 1, 3) = <<100, 0, -100>>
  /\ call.out.p10 = 100 /\ call.out.p90 = -100 /\ call.out.mean = 0

----------------------------------------------------------------------------
(* AI calls that fail *)

\* a button of the Alternatives stage that leaves it forward can be pressed:
\* "Continue without AI", "Skip AI - Next" or "Continue to Criteria"
AlternativesForward ==
  \/ al.aiError # ""
  \/ al.aiSuggestions = NOLIST /\ ~al.aiLoading
        /\ Len(al.alternatives) >= MinAlternatives
  \/ al.aiSuggestions # NOLIST /\ ~al.aiLoading

\* the Risks stage renders a control: the suggested risks with "Write My
\* Own", the manual entry form with Back, or the review with its buttons
RisksControls == AiRisksShown \/ ManualEntry \/ pm.showReview

----------------------------------------------------------------------------
(* AI calls in flight *)

\* the brainstormAlternatives calls of the mounted AlternativesStage that
\* have not settled
LiveBrainstorms == { i \in DOMAIN brainstorms : brainstorms[i].live }

\* C13: at most one AI call is in flight per stage widget.  The mounted
\* AlternativesStage has at most one unsettled brainstormAlternatives call,
\* the mounted ScoringStage at most one unsettled generateScoringInsight call
\* (also after "Adjust Scores" and "See Results" while one is pending) and
\* the mounted SynthesisStage at most one unsettled refineMemo call.  The
\* scan of PreMortemStage is started by its mount effect only.
C13_OneCallPerWidget ==
  /\ Cardinality(LiveBrainstorms) <= 1
  /\ sc # NULL => sc.calls <= 1
  /\ sy # NULL => sy.calls <= 1

\* "Adjust Scores" was pressed while the insight asked for by "See Results"
\* is pending, so that "See Results" can be pressed again during the call;
\* a brainstorm of an abandoned AlternativesStage is unsettled as well
C13_Witness ==
  /\ sc # NULL
  /\ ~sc.showResults /\ sc.aiInsightLoading /\ sc.calls = 1
  /\ Len(brainstorms) > 0

----------------------------------------------------------------------------
(* Deferred simulations *)

\* the deferred run submitted first completes while a later one is pending
EarlierRunCompletes == Len(timers) >= 2 /\ timers' = Tail(timers)

\* C14: Monte Carlo results are last-submitted-wins.  A deferred run that
\* completes after other estimates were submitted is discarded: it writes
\* neither its case values nor its mcResult to the record, also when the
\* user left the stage and came back between the two submissions.
C14_LastSubmittedWins == [][EarlierRunCompletes => UNCHANGED decision]_vars

----------------------------------------------------------------------------
(* Pending AI calls *)

\* AlternativesStage shows "Brainstorming hybrid options..."
BrainstormPending == al # NULL /\ al.aiLoading

\* ScoringStage is waiting for its insight
InsightPending == sc # NULL /\ sc.aiInsightLoading

\* PreMortemStage shows "Identifying common risks...": neither the manual
\* entry form nor its Back button is rendered
ScanPending == pm # NULL /\ pm.aiRiskLoading

\* SynthesisStage is refining the memo
RefinePending == sy # NULL /\ sy.memoRefining

\* C12: every pending AI call eventually ends.  A widget that entered its
\* pending state (brainstorm, insight, risk scan, refinement) always leaves
\* it, so the Risks stage is not kept without its manual entry form and Back
\* button forever.
C12_PendingCallsEnd ==
  /\ BrainstormPending ~> ~BrainstormPending
  /\ InsightPending ~> ~InsightPending
  /\ ScanPending ~> ~ScanPending
  /\ RefinePending ~> ~RefinePending

----------------------------------------------------------------------------
(* The random source of monteCarlo *)

\* what calls monteCarlo(min, mode, max, n) can return: the function takes
\* its draws from Math.random() and has no parameter for a seed or a generator
SimulateOutcomes(min, mode, max, n) ==
  { monteCarlo(min, mode, max, us) : us \in SimulateDraws(n) }

\* C21: monteCarlo is deterministic under a fixed random source.  Its caller
\* fixes everything the result depends on: a call that has returned gave the
\* only result a call with its arguments can give.
C21_SimulateDeterminedByArguments ==
  SimulateReturned =>
    SimulateOutcomes(call.args[1], call.args[2], call.args[3], call.args[4])
      = {call.out}

----------------------------------------------------------------------------
(* The order of the percentiles *)

\* p10 <= median <= p90 and 0 <= probLoss <= 1
Ordered(r) ==
  /\ r.p10 <= r.median /\ r.median <= r.p90
  /\ 0 <= r.probLoss.num /\ r.probLoss.num <= r.probLoss.den

\* C28 as stated: every result monteCarlo returns, in the sampled and in the
\* degenerate branch, has p10 <= median <= p90 and 0 <= probLoss <= 1
C28_OrderedInBothBranches == SimulateReturned => Ordered(call.out)

\* C28: every result monteCarlo returns for min < max and at least one trial
\* has p10 <= median <= p90 and 0 <= probLoss <= 1; for min >= max probLoss
\* is 0 or 1 and p10 = min, median = mode, p90 = max are returned as given
C28_OrderedWhenSampled ==
  SimulateReturned =>
    IF call.args[1] < call.args[3]
    THEN Ordered(call.out)
    ELSE /\ call.out.probLoss.num \in {0, call.out.probLoss.den}
         /\ call.out.p10 = call.args[1]
         /\ call.out.median = call.args[2]
         /\ call.out.p90 = call.args[3]

\* a run of three trials over a range around 0 has returned three different
\* statistics, one of them a loss
C28_Witness ==
  /\ SimulateReturned
  /\ call.args[1] < call.args[3] /\ call.args[4] = MaxSimulateTrials
  /\ call.out.p10 < call.out.median
  /\ call.out.probLoss.num > 0 /\ call.out.probLoss.num < call.out.probLoss.den

----------------------------------------------------------------------------
(* The normalisation of the scores *)

\* the sum over the criteria j..Len(criteria) of weight times the entry of
\* the alternative, 5 standing for a missing entry
RECURSIVE WeightedFrom(_, _, _, _)
WeightedFrom(j, altId, criteria, scores) ==
  IF j > Len(criteria) THEN 0
  ELSE criteria[j].weight *
         (IF <<altId, criteria[j].id>> \in DOMAIN scores
          THEN scores[<<altId, criteria[j].id>>] ELSE 5)
       + WeightedFrom(j + 1, altId, criteria, scores)

\* the sum of the weights of the criteria j..Len(criteria)
RECURSIVE WeightsFrom(_, _)
WeightsFrom(j, criteria) ==
  IF j > Len(criteria) THEN 0
  ELSE criteria[j].weight + WeightsFrom(j + 1, criteria)

\* every score of ranking is the weighted sum over criteria divided by the
\* sum of the weights of criteria
NormalisedBy(ranking, criteria, scores) ==
  \A k \in DOMAIN ranking :
    ranking[k].score.num * WeightsFrom(1, criteria)
      = ranking[k].score.den * WeightedFrom(1, ranking[k].id, criteria, scores)

\* the criteria with every weight doubled
Doubled(criteria) ==
  [j \in DOMAIN criteria |-> [criteria[j] EXCEPT !.weight = 2 * @]]

\* the criteria without the j-th
Without(criteria, j) ==
  SubSeq(criteria, 1, j - 1) \o SubSeq(criteria, j + 1, Len(criteria))

\* rankings a and b list the same alternatives with equal scores
SameScores(a, b) ==
  /\ Len(a) = Len(b)
  /\ \A k \in DOMAIN a :
       /\ a[k].id = b[k].id
       /\ a[k].score.num * b[k].score.den = b[k].score.num * a[k].score.den

\* C26: the score calculateRankings computes for an alternative is the sum
\* over the given criteria of weight times entry (5 for a missing entry)
\* divided by the sum of the given weights.  The same holds for the call
\* with any one criterion left out, and the call with every weight doubled
\* returns the same alternatives with the same scores.
C26_RankNormalisedByGivenWeights ==
  RankReturned =>
    LET alternatives == call.args[1]
        criteria == call.args[2]
        scores == call.args[3]
    IN /\ NormalisedBy(call.out, criteria, scores)
       /\ \A j \in DOMAIN criteria :
            NormalisedBy(calculateRankings(alternatives, Without(criteria, j),
                                           scores),
                         Without(criteria, j), scores)
       /\ SameScores(calculateRankings(alternatives, Doubled(criteria), scores),
                     call.out)

\* two criteria whose weights sum to 0.6, not to 1, ranked two alternatives,
\* one of them with a missing entry, with different scores
C26_Witness ==
  /\ RankReturned
  /\ Len(call.args[2]) = 2 /\ WeightsFrom(1, call.args[2]) = 60
  /\ Len(call.out) = 2
  /\ \E i \in DOMAIN call.args[1] :
       <<call.args[1][i].id, call.args[2][1].id>> \notin DOMAIN call.args[3]
  /\ call.out[1].score.num > call.out[2].score.num

----------------------------------------------------------------------------
(* Malformed arguments *)

\* a direct call of detectScoringPatterns has ended
DetectReturned == call.fn = "detect" /\ call.done

\* C22: calculateRankings and detectScoringPatterns never raise to their
\* caller.  Given null for its alternatives or criteria, calculateRankings
\* returns the empty list; no call of detectScoringPatterns throws, and one
\* given null for its rankings, alternatives or criteria returns no insight.
C22_NeverRaise ==
  /\ (RankEnded /\ NoArray \in {call.args[1], call.args[2]}) =>
        call.out = <<>>
  /\ DetectReturned => ~call.out.threw
  /\ (DetectReturned /\ NoArray \in {call.args[1], call.args[2], call.args[3]})
        => call.out.insights = <<>>

----------------------------------------------------------------------------
(* The rules of detectScoringPatterns *)

\* detectScoringPatterns has returned from a call that gave it arrays
DetectGaveInsights ==
  /\ DetectReturned /\ ~call.out.threw
  /\ NoArray \notin {call.args[1], call.args[2], call.args[3]}

\* the types of the insights returned, in their order
InsightTypes == [k \in DOMAIN call.out.insights |-> call.out.insights[k].type]

RuleOrder == <<"clustered", "dominant", "inflated">>

\* the entries of the score matrix for the alternatives and criteria given
EntriesGiven ==
  { p \in DOMAIN call.args[4] :
      /\ \E i \in DOMAIN call.args[2] : call.args[2][i].id = p[1]
      /\ \E j \in DOMAIN call.args[3] : call.args[3][j].id = p[2] }

\* more than 70% of the entries given are 7 or above
MostlyHigh ==
  /\ EntriesGiven # {}
  /\ 10 * Cardinality({ p \in EntriesGiven : call.args[4][p] >= 7 })
       > 7 * Cardinality(EntriesGiven)

\* C23: detectScoringPatterns emits at most one message per rule, in the
\* order clustered, dominant, inflated, and each rule fires exactly when its
\* own condition holds, whatever the other rules do and also when the list
\* of rankings is empty: inflated fires whenever more than 70% of the score
\* entries present are 7 or above.
C23_RulesIndependent ==
  DetectGaveInsights =>
    /\ \E kept \in SUBSET (DOMAIN RuleOrder) :
         InsightTypes = SelectSeq(RuleOrder,
                          LAMBDA t : \E k \in kept : RuleOrder[k] = t)
    /\ ("clustered" \in Range(InsightTypes))
         <=> (Len(call.args[1]) >= 2 /\ spreadBelowOne(call.args[1]))
    /\ ("dominant" \in Range(InsightTypes))
         <=> /\ Len(call.args[1]) >= 2 /\ Len(call.args[3]) >= 2
             /\ \E j \in DOMAIN call.args[3] :
                  swings(j, call.args[1], call.args[2], call.args[3],
                         call.args[4])
    /\ ("inflated" \in Range(InsightTypes)) <=> MostlyHigh

----------------------------------------------------------------------------
(* The clustered rule *)

\* the rankings given hold the overall scores top and bottom, in tenths, as
\* their first and their last score
ScoresGiven(top, bottom) ==
  LET given == call.args[1]
  IN /\ Len(given) >= 2
     /\ 10 * given[1].score.num = top * given[1].score.den
     /\ 10 * given[Len(given)].score.num = bottom * given[Len(given)].score.den

\* detectScoringPatterns returned the clustered insight
ClusteredFired == "clustered" \in Range(InsightTypes)

\* C24: the clustered insight fires exactly when at least 2 ranked
\* alternatives exist and the top score minus the bottom score is strictly
\* less than 1.0: it fires for the overall scores 8.0 and 8.4, and fires
\* neither for 3.0 and 9.0 nor for the spread of exactly 1.0 of 8.0 and 9.0.
C24_ClusteredBelowOnePoint ==
  DetectGaveInsights =>
    /\ ClusteredFired <=>
         /\ Len(call.args[1]) >= 2
         /\ LET top == call.args[1][1].score
                bottom == call.args[1][Len(call.args[1])].score
            IN top.num * bottom.den - bottom.num * top.den
                 < top.den * bottom.den
    /\ ScoresGiven(84, 80) => ClusteredFired
    /\ ScoresGiven(90, 30) => ~ClusteredFired
    /\ ScoresGiven(90, 80) => ~ClusteredFired

\* the alternatives scoring 8.0 and 9.0 overall, a spread of exactly 1.0,
\* were given and the clustered insight was not returned
C24_Witness ==
  /\ DetectGaveInsights
  /\ call.args = TwoScoring(<<8, 8>>, <<9, 9>>).args
  /\ ScoresGiven(90, 80)
  /\ ~ClusteredFired

----------------------------------------------------------------------------
(* The dominant rule *)

\* the ranking of the alternatives given with the j-th criterion left out
RankedWithout(j) ==
  calculateRankings(call.args[2], Without(call.args[3], j), call.args[4])

\* leaving out the j-th criterion makes another alternative rank first
Flips(j) ==
  /\ call.args[1] # <<>> /\ RankedWithout(j) # <<>>
  /\ RankedWithout(j)[1].id # call.args[1][1].id

\* the dominant insights returned
DominantInsights ==
  SelectSeq(call.out.insights, LAMBDA m : m.type = "dominant")

\* C27: given at least 2 alternatives and at least 2 criteria, the dominant
\* rule emits exactly one message, for the first criterion in the given
\* order whose exclusion makes a different alternative rank first, naming
\* that criterion and the new first alternative; it emits nothing for later
\* criteria and nothing at all when no exclusion changes the top alternative.
C27_DominantFirstSwingOnly ==
  (DetectGaveInsights /\ Len(call.args[2]) >= 2 /\ Len(call.args[3]) >= 2) =>
    LET flipping == { j \in DOMAIN call.args[3] : Flips(j) }
    IN IF flipping = {}
       THEN DominantInsights = <<>>
       ELSE LET first == CHOOSE j \in flipping : \A g \in flipping : j <= g
            IN /\ Len(DominantInsights) = 1
               /\ DominantInsights[1].criterion = call.args[3][first].name
               /\ DominantInsights[1].alternative
                    = RankedWithout(first)[1].name

\* the alternative ranked first is first on neither of the two criteria, so
\* that leaving out either criterion changes the top alternative, and one
\* message names the first criterion
C27_Witness ==
  /\ DetectGaveInsights
  /\ Len(call.args[2]) = 3 /\ Len(call.args[3]) = 2
  /\ Flips(1) /\ Flips(2)
  /\ RankedWithout(1)[1].id # RankedWithout(2)[1].id
  /\ Len(DominantInsights) = 1
  /\ DominantInsights[1].criterion = "X"

----------------------------------------------------------------------------
(* The top choice of the stages after Scoring *)

\* rank(record.alternatives, record.criteria, record.scores)
recordRanking ==
  calculateRankings(decision.alternatives, decision.criteria, decision.scores)

\* C25: whenever the stage is Uncertainty, Risks or Synthesis, topChoice is
\* non-null and its id is the id of the first entry of the ranking of the
\* record's alternatives, criteria and scores, whatever navigation,
\* re-scoring and late callbacks came before.
C25_TopChoiceIsFirstRanked ==
  Stage \in {"uncertainty", "premortem", "synthesis"} =>
    /\ decision.topChoice # NULL
    /\ recordRanking # <<>>
    /\ "id" \in DOMAIN decision.topChoice
    /\ decision.topChoice.id = recordRanking[1].id

----------------------------------------------------------------------------
(* The risks of the Risks stage *)

\* C29: each risk entered in the Risks stage is recorded exactly once under
\* any sequence of Add Risk, Review Risks, Add More and Add Selected: the
\* list that Generate Memo writes holds no risk more often than it was
\* added and never more than 5 risks.  A risk of the form that is recorded
\* and not changed since is not appended again, and the written list has at
\* most 5 entries.
C29_RisksRecordedOnce ==
  /\ [](Len(decision.risks) <= ReviewAtRisks)
  /\ [][ (pm # NULL /\ pm.recorded /\ pm' # NULL)
          => Len(pm'.completedRisks) <= Len(pm.completedRisks) ]_vars

----------------------------------------------------------------------------
(* The AI insight of the results view *)

\* the results view displays an AI insight
InsightDisplayed == sc # NULL /\ sc.showResults /\ sc.aiInsight # ""

\* C30: an AI insight displayed in the results view of Scoring was requested
\* for the scores currently shown; after Adjust Scores while a call is
\* pending, a changed score and See Results, the insight of the earlier
\* call is never displayed with the new results.
C30_InsightOfShownScores ==
  InsightDisplayed => sc.askedFor = sc.localScores

====
